---- MODULE Spec2Model ----
(***************************************************************************)
(* Clixon: NETCONF error encoder (clixon_netconf_lib.c) and backend        *)
(* start-up / shutdown (backend_main.c).                                   *)
(*                                                                         *)
(* Text (a C string or the content of a cbuf) is a sequence of lexemes:    *)
(* markup <n>, </n>, <n/> and character data.  A tree (cxobj) is a record  *)
(* [name, body, kids].  A pointer that may be NULL is a sequence of length *)
(* at most one.                                                            *)
(***************************************************************************)
EXTENDS Integers, Sequences, FiniteSets, TLC

VARIABLES
    cb0,      \* content of the caller's cbuf before the last builder call
    cb,       \* content of the caller's cbuf after it
    xret0,    \* the caller's output tree (*xret) before the last call
    xret,     \* the caller's output tree after it
    last,     \* the last builder call: function, form, arguments, retval
    \* backend main()
    pc,           \* position of main()
    zap,          \* -z given
    once,         \* -1 given
    startup_mode, \* CLICON_STARTUP_MODE / -s
    sockfamily,   \* CLICON_SOCK_FAMILY / -a
    opts,         \* the configuration (pidfile and socket path) is loaded
    pidfile,      \* the pidfile: "none", "stale", "other" (a daemon's), "own"
    sockfile,     \* the Unix socket path: "none", "other", "own"
    daemon,       \* another backend daemon is alive
    status,       \* enum startup_status of main()
    suberrno,     \* clicon_suberrno
    retval,       \* retval of main()
    exitcode,     \* the exit code of the process, once it has exited
    ss,           \* the server socket is open
    handlers,     \* backend_sig_term is installed for SIGTERM and SIGINT
    clicon_exit,  \* the flag clicon_exit_set() sets
    sigcount,     \* static int i of backend_sig_term
    events,       \* events the loop has handled
    released,     \* backend_terminate has freed the handle and its trees
    log,          \* what has been logged
    r2s,          \* history: the last ret2status call
    fatal,        \* history: a fatal error was hit
    accepted,     \* history: the server socket was opened for clients
    nacm_mode,    \* CLICON_NACM_MODE: "disabled" or "external"
    nacm_file,    \* what CLICON_NACM_FILE names
    nacm_ext,     \* clicon_nacm_ext(h): NULL or the external NACM tree
    nacm_xtree,   \* the datastore option nacm_xtree
    running0,     \* the running datastore as the previous run left it
    running,      \* the running datastore
    tmp,          \* the tmp datastore
    candidate,    \* the candidate datastore, NULL before it is initialised
    cbret,        \* the startup cbuf holds invalidation text
    recorded,     \* clicon_startup_status_get(h), "unset" before it is set
    trace,        \* history: the start-up steps taken, in order
    lastreq,      \* history: the last client request and its outcome
    \* a library function applied on its own
    lib_fn,       \* the function
    lib_in,       \* its arguments and what it reads
    lib_out,      \* what it returns and leaves behind
    \* the dispatcher, the commit engine and the confirmed-commit machine
    sessions,     \* the ids of the connected sessions
    next_id,      \* the next session id to assign
    locks,        \* per datastore the id of the session holding its lock, 0 if none
    cc,           \* the ConfirmedCommitCtx
    db_running,   \* the running datastore the dispatcher serves
    db_candidate, \* the candidate datastore the dispatcher serves
    rb,           \* the rollback the last step made and its log message, or NULL
    reply         \* the last rpc-reply sent

encvars == <<cb0, cb, xret0, xret, last>>

mainvars == <<pc, zap, once, startup_mode, sockfamily, opts, pidfile, sockfile,
              daemon, status, suberrno, retval, exitcode, ss, handlers,
              clicon_exit, sigcount, events, released, log, r2s, fatal,
              accepted, nacm_mode, nacm_file, nacm_ext, nacm_xtree,
              running0, running,
              tmp, candidate, cbret, recorded, trace, lastreq>>

libvars == <<lib_fn, lib_in, lib_out>>

srvvars == <<sessions, next_id, locks, cc, db_running, db_candidate, rb,
             reply>>

extvars == <<libvars, srvvars>>

vars == <<encvars, mainvars, extvars>>

-----------------------------------------------------------------------------
(* Text and trees *)

NULL == <<>>

Chr(c)   == [k |-> "chr",   v |-> c]
Open(n)  == [k |-> "open",  v |-> n]
Close(n) == [k |-> "close", v |-> n]
Empty(n) == [k |-> "empty", v |-> n]

\* the text "<n>s</n>"
El(n, s) == <<Open(n)>> \o s \o <<Close(n)>>

\* xml_new(name, parent, NULL): a fresh element
xml_new(n) == [name |-> n, body |-> <<>>, kids |-> <<>>]

\* xml_name_set
xml_name_set(x, n) == [x EXCEPT !.name = n]

AddKid(x, c) == [x EXCEPT !.kids = Append(@, c)]

\* xml_chardata_encode: escape the XML special characters of a string
EncodeChr(c) ==
    CASE c.v = "&" -> Chr("&amp;")
      [] c.v = "<" -> Chr("&lt;")
      [] c.v = ">" -> Chr("&gt;")
      [] OTHER     -> c

xml_chardata_encode(s) == [i \in 1..Len(s) |-> EncodeChr(s[i])]

\* The XML parser: the stack holds the elements that are open, innermost
\* last; an empty stack is a parse error.
RECURSIVE ParseStk(_, _)
ParseStk(stk, toks) ==
    IF stk = <<>> \/ toks = <<>> THEN stk
    ELSE LET t   == Head(toks)
             n   == Len(stk)
             top == stk[n]
         IN CASE t.k = "open" ->
                     ParseStk(Append(stk, xml_new(t.v)), Tail(toks))
              [] t.k = "empty" ->
                     ParseStk([stk EXCEPT ![n] = AddKid(top, xml_new(t.v))],
                              Tail(toks))
              [] t.k = "chr" ->
                     IF t.v \in {"<", "&"} THEN <<>>
                     ELSE ParseStk([stk EXCEPT ![n].body = Append(@, t)],
                                   Tail(toks))
              [] OTHER ->
                     IF n > 1 /\ top.name = t.v
                     THEN ParseStk([SubSeq(stk, 1, n - 1) EXCEPT
                                       ![n - 1] = AddKid(stk[n - 1], top)],
                                   Tail(toks))
                     ELSE <<>>

\* xml_parse_va(&x, NULL, fmt, ...): parse text, add what it holds under x
xml_parse_va(x, text) ==
    LET stk == ParseStk(<<x>>, text)
    IN  IF Len(stk) = 1 THEN [ok |-> TRUE, x |-> stk[1]]
                        ELSE [ok |-> FALSE, x |-> x]

\* clicon_xml2cbuf(cb, x, 0, 0): the text of a tree, no pretty-printing
RECURSIVE clicon_xml2cbuf(_), RenderKids(_)
clicon_xml2cbuf(x) ==
    IF x.body = <<>> /\ x.kids = <<>> THEN <<Empty(x.name)>>
    ELSE <<Open(x.name)>> \o x.body \o RenderKids(x.kids) \o <<Close(x.name)>>

RenderKids(ks) ==
    IF ks = <<>> THEN <<>>
    ELSE clicon_xml2cbuf(Head(ks)) \o RenderKids(Tail(ks))

\* xml_find(x, name): the first child of x with that name, or NULL
xml_find(x, n) ==
    LET idx == {i \in 1..Len(x.kids) : x.kids[i].name = n}
    IN  IF idx = {} THEN NULL
        ELSE <<x.kids[CHOOSE i \in idx : \A j \in idx : i <= j]>>

-----------------------------------------------------------------------------
(* Inputs of the builders *)

\* error-type strings a caller may pass
Types == {<<Chr("transport")>>, <<Chr("rpc")>>,
          <<Chr("protocol")>>, <<Chr("application")>>}

\* messages a caller may pass: NULL, "", and strings with special characters
Messages == {NULL, <<<<>>>>, <<<<Chr("a"), Chr("<")>>>>, <<<<Chr("&")>>>>,
             <<<<Chr(">"), Chr("b")>>>>}

\* info arguments: a serialized bad-attribute or session-id element
Infos == {El("bad-attribute", <<Chr("x")>>), El("session-id", <<Chr("42")>>)}

\* element and namespace names
Elements == {<<Chr("x")>>, <<Chr("y")>>}

\* what a cbuf may hold before a builder appends to it
CbPrefixes == {<<>>, <<Empty("ok")>>}

\* what *xret may be before a tree builder is called
Roots == {NULL, <<xml_new("rpc-reply")>>,
          <<AddKid(xml_new("data"), xml_new("old"))>>}

ERRHDR == <<Open("rpc-reply"), Open("rpc-error")>>
ERRFTR == <<Close("rpc-error"), Close("rpc-reply")>>
SEVERITY == El("error-severity", <<Chr("error")>>)

\* if (message){ encode; cprintf("<error-message>%s</error-message>") }
MsgText(message) ==
    IF message = NULL THEN <<>>
    ELSE El("error-message", xml_chardata_encode(message[1]))

TypeEl(type) == El("error-type", type)
Tag(t)       == El("error-tag", <<Chr(t)>>)
AppTag(t)    == El("error-app-tag", <<Chr(t)>>)

-----------------------------------------------------------------------------
(* Serialized (cbuf) builders that print the envelope themselves.  Each    *)
(* returns the retval and the new content of the cbuf.                     *)

\* in-use printed with error-type rpc, whatever the caller passes
netconf_in_use_rpc(b, type, message) ==
    [retval |-> 0,
     cb |-> b \o ERRHDR \o TypeEl(<<Chr("rpc")>>) \o Tag("in-use") \o SEVERITY
              \o MsgText(message) \o ERRFTR]

netconf_in_use(b, type, message) ==
    [retval |-> 0,
     cb |-> b \o ERRHDR \o TypeEl(type) \o Tag("in-use") \o SEVERITY
              \o MsgText(message) \o ERRFTR]

\* too-big with the message printed as it is
netconf_too_big_raw(b, type, message) ==
    [retval |-> 0,
     cb |-> b \o ERRHDR \o TypeEl(type) \o Tag("too-big") \o SEVERITY
              \o (IF message = NULL THEN <<>>
                  ELSE El("error-message", message[1])) \o ERRFTR]

netconf_too_big(b, type, message) ==
    [retval |-> 0,
     cb |-> b \o ERRHDR \o TypeEl(type) \o Tag("too-big") \o SEVERITY
              \o MsgText(message) \o ERRFTR]

netconf_missing_attribute(b, type, info, message) ==
    [retval |-> 0,
     cb |-> b \o ERRHDR \o TypeEl(type) \o Tag("missing-attribute")
              \o El("error-info", info) \o SEVERITY
              \o MsgText(message) \o ERRFTR]

netconf_bad_attribute(b, type, info, message) ==
    [retval |-> 0,
     cb |-> b \o ERRHDR \o TypeEl(type) \o Tag("bad-attribute")
              \o El("error-info", info) \o SEVERITY
              \o MsgText(message) \o ERRFTR]

netconf_unknown_attribute(b, type, info, message) ==
    [retval |-> 0,
     cb |-> b \o ERRHDR \o TypeEl(type) \o Tag("unknown-attribute")
              \o El("error-info", info) \o SEVERITY
              \o MsgText(message) \o ERRFTR]

\* lock-denied printed with error-type application
netconf_lock_denied_app(b, info, message) ==
    [retval |-> 0,
     cb |-> b \o ERRHDR \o TypeEl(<<Chr("application")>>) \o Tag("lock-denied")
              \o El("error-info", info) \o SEVERITY
              \o MsgText(message) \o ERRFTR]

netconf_lock_denied(b, info, message) ==
    [retval |-> 0,
     cb |-> b \o ERRHDR \o TypeEl(<<Chr("protocol")>>) \o Tag("lock-denied")
              \o El("error-info", info) \o SEVERITY
              \o MsgText(message) \o ERRFTR]

netconf_resource_denied(b, type, message) ==
    [retval |-> 0,
     cb |-> b \o ERRHDR \o TypeEl(type) \o Tag("resource-denied") \o SEVERITY
              \o MsgText(message) \o ERRFTR]

netconf_rollback_failed(b, type, message) ==
    [retval |-> 0,
     cb |-> b \o ERRHDR \o TypeEl(type) \o Tag("rollback-failed") \o SEVERITY
              \o MsgText(message) \o ERRFTR]

netconf_data_exists(b, message) ==
    [retval |-> 0,
     cb |-> b \o ERRHDR \o TypeEl(<<Chr("application")>>) \o Tag("data-exists")
              \o SEVERITY \o MsgText(message) \o ERRFTR]

netconf_operation_not_supported(b, type, message) ==
    [retval |-> 0,
     cb |-> b \o ERRHDR \o TypeEl(type) \o Tag("operation-not-supported")
              \o SEVERITY \o MsgText(message) \o ERRFTR]

-----------------------------------------------------------------------------
(* Tree builders.  Each returns the retval and the new *xret.              *)

\* a root that is always a fresh rpc-reply
ReplyRoot_fresh(xr) == xml_new("rpc-reply")

\* if (*xret == NULL) xml_new("rpc-reply") else xml_name_set(*xret, "rpc-reply")
ReplyRoot(xr) ==
    IF xr = NULL THEN xml_new("rpc-reply") ELSE xml_name_set(xr[1], "rpc-reply")

\* the successive xml_parse_va calls on xerr; the first failure ends them
RECURSIVE ParseParts(_, _)
ParseParts(x, parts) ==
    IF parts = <<>> THEN [ok |-> TRUE, x |-> x]
    ELSE LET p == xml_parse_va(x, Head(parts))
         IN  IF p.ok THEN ParseParts(p.x, Tail(parts)) ELSE p

\* xerr = xml_new("rpc-error", *xret), then the parses into xerr
ErrTree(xr, parts) ==
    LET p == ParseParts(xml_new("rpc-error"), parts)
    IN  [retval |-> IF p.ok THEN 0 ELSE -1,
         xret   |-> <<AddKid(ReplyRoot(xr), p.x)>>]

MsgParts(message) ==
    IF message = NULL THEN <<>> ELSE <<MsgText(message)>>

netconf_invalid_value_xml(xr, type, message) ==
    ErrTree(xr, <<TypeEl(type) \o Tag("invalid-value") \o SEVERITY>>
                \o MsgParts(message))

netconf_common_xml(xr, type, tag, infotag, element, message) ==
    ErrTree(xr, <<TypeEl(type) \o Tag(tag)
                  \o El("error-info", El(infotag, element)) \o SEVERITY>>
                \o MsgParts(message))

netconf_missing_element_xml(xr, type, element, message) ==
    netconf_common_xml(xr, type, "missing-element", "bad-element", element,
                       message)

netconf_bad_element_xml(xr, type, element, message) ==
    netconf_common_xml(xr, type, "bad-element", "bad-element", element, message)

netconf_unknown_element_xml(xr, type, element, message) ==
    netconf_common_xml(xr, type, "unknown-element", "bad-element", element,
                       message)

netconf_unknown_namespace_xml(xr, type, namespace, message) ==
    netconf_common_xml(xr, type, "unknown-namespace", "bad-namespace",
                       namespace, message)

netconf_access_denied_xml(xr, type, message) ==
    ErrTree(xr, <<TypeEl(type) \o Tag("access-denied") \o SEVERITY>>
                \o MsgParts(message))

netconf_data_missing_xml(xr, missing_choice, message) ==
    ErrTree(xr, <<TypeEl(<<Chr("application")>>) \o Tag("data-missing")>>
                \o (IF missing_choice = NULL THEN <<>>
                    ELSE <<AppTag("missing-choice")
                           \o El("error-info",
                                 El("missing-choice", missing_choice[1]))>>)
                \o <<SEVERITY>>
                \o MsgParts(message))

netconf_operation_failed_xml(xr, type, message) ==
    ErrTree(xr, <<TypeEl(type) \o Tag("operation-failed") \o SEVERITY>>
                \o MsgParts(message))

netconf_malformed_message_xml(xr, message) ==
    ErrTree(xr, <<TypeEl(<<Chr("rpc")>>) \o Tag("malformed-message")
                  \o SEVERITY>>
                \o MsgParts(message))

\* while ((cvi = cvec_each(cvk, cvi)) != NULL): one <non-unique> per
\* component found in x, parsed into xinfo
RECURSIVE NonUnique(_, _, _)
NonUnique(xinfo, x, cvk) ==
    IF cvk = <<>> THEN [ok |-> TRUE, x |-> xinfo]
    ELSE LET xi == xml_find(x, Head(cvk))
         IN  IF xi = NULL THEN NonUnique(xinfo, x, Tail(cvk))
             ELSE LET p == xml_parse_va(xinfo,
                               El("non-unique", clicon_xml2cbuf(xi[1])))
                  IN  IF p.ok THEN NonUnique(p.x, x, Tail(cvk)) ELSE p

\* data-not-unique with an error-info whatever the length of cvk
netconf_data_not_unique_xml_info(xr, x, cvk) ==
    LET h == ErrTree(NULL, <<TypeEl(<<Chr("protocol")>>)
                             \o Tag("operation-failed")
                             \o AppTag("data-not-unique") \o SEVERITY>>)
        xerr == h.xret[1].kids[1]
        inf  == NonUnique(xml_new("error-info"), x, cvk)
    IN  [retval |-> IF h.retval < 0 \/ ~inf.ok THEN -1 ELSE 0,
         xret   |-> <<AddKid(ReplyRoot(xr), AddKid(xerr, inf.x))>>]

netconf_data_not_unique_xml(xr, x, cvk) ==
    LET h == ErrTree(NULL, <<TypeEl(<<Chr("protocol")>>)
                             \o Tag("operation-failed")
                             \o AppTag("data-not-unique") \o SEVERITY>>)
        xerr == h.xret[1].kids[1]
        inf  == NonUnique(xml_new("error-info"), x, cvk)
    IN  IF h.retval < 0 \/ Len(cvk) = 0
        THEN [retval |-> h.retval, xret |-> <<AddKid(ReplyRoot(xr), xerr)>>]
        ELSE [retval |-> IF inf.ok THEN 0 ELSE -1,
              xret   |-> <<AddKid(ReplyRoot(xr), AddKid(xerr, inf.x))>>]

netconf_minmax_elements_xml(xr, x, max) ==
    ErrTree(xr, <<TypeEl(<<Chr("protocol")>>) \o Tag("operation-failed")
                  \o AppTag(IF max # 0 THEN "too-many-elements"
                                       ELSE "too-few-elements")
                  \o SEVERITY
                  \o El("error-path", <<Chr(x.name)>>)>>)

-----------------------------------------------------------------------------
(* Serialized builders that render the tree builder's result:              *)
(* xret = NULL; if (..._xml(&xret, ...) < 0) goto done;                    *)
(* if (clicon_xml2cbuf(cb, xret, 0, 0) < 0) goto done;                     *)

ViaTree(b, r) ==
    IF r.retval < 0 THEN [retval |-> -1, cb |-> b]
    ELSE [retval |-> 0, cb |-> b \o clicon_xml2cbuf(r.xret[1])]

netconf_invalid_value(b, type, message) ==
    ViaTree(b, netconf_invalid_value_xml(NULL, type, message))

netconf_missing_element(b, type, element, message) ==
    ViaTree(b, netconf_common_xml(NULL, type, "missing-element", "bad-element",
                                  element, message))

netconf_bad_element(b, type, element, message) ==
    ViaTree(b, netconf_common_xml(NULL, type, "bad-element", "bad-element",
                                  element, message))

netconf_unknown_element(b, type, element, message) ==
    ViaTree(b, netconf_common_xml(NULL, type, "unknown-element", "bad-element",
                                  element, message))

netconf_unknown_namespace(b, type, namespace, message) ==
    ViaTree(b, netconf_common_xml(NULL, type, "unknown-namespace",
                                  "bad-namespace", namespace, message))

netconf_access_denied(b, type, message) ==
    ViaTree(b, netconf_access_denied_xml(NULL, type, message))

netconf_data_missing(b, missing_choice, message) ==
    ViaTree(b, netconf_data_missing_xml(NULL, missing_choice, message))

\* operation-failed printed into the cbuf without building the tree
netconf_operation_failed_print(b, type, message) ==
    [retval |-> 0,
     cb |-> b \o ERRHDR \o TypeEl(type) \o Tag("operation-failed") \o SEVERITY
              \o MsgText(message) \o ERRFTR]

netconf_operation_failed(b, type, message) ==
    ViaTree(b, netconf_operation_failed_xml(NULL, type, message))

netconf_malformed_message(b, message) ==
    ViaTree(b, netconf_malformed_message_xml(NULL, message))

-----------------------------------------------------------------------------
(* The merge helper *)

\* reasons xml_merge may report
Reasons == {<<Chr("no"), Chr("<"), Chr("yang")>>, <<Chr("bad")>>}

\* the outcomes of xml_merge(*xret, x, yspec, &reason): error, a reason, or ok
MergeOutcomes ==
    {[ret |-> -1, reason |-> NULL], [ret |-> 0, reason |-> NULL]}
    \cup {[ret |-> 0, reason |-> <<r>>] : r \in Reasons}

\* xml_merge: the children of x that x0 lacks are added to x0
RECURSIVE xml_merge(_, _)
xml_merge(x0, ks) ==
    IF ks = <<>> THEN x0
    ELSE xml_merge(IF xml_find(x0, Head(ks).name) = NULL
                   THEN AddKid(x0, Head(ks)) ELSE x0, Tail(ks))

\* a merge helper that leaves the children of the root where they are
netconf_trymerge_nopurge(x, xr, m) ==
    IF xr = NULL THEN [retval |-> 1, xret |-> <<x>>]
    ELSE IF m.ret < 0 THEN [retval |-> -1, xret |-> xr]
    ELSE IF m.reason # NULL
    THEN LET r == netconf_operation_failed_xml(xr, <<Chr("rpc")>>, m.reason)
         IN  [retval |-> IF r.retval < 0 THEN -1 ELSE 0, xret |-> r.xret]
    ELSE [retval |-> 1, xret |-> <<xml_merge(xr[1], x.kids)>>]

netconf_trymerge(x, xr, m) ==
    IF xr = NULL THEN [retval |-> 1, xret |-> <<x>>]
    ELSE IF m.ret < 0 THEN [retval |-> -1, xret |-> xr]
    ELSE IF m.reason # NULL
    THEN LET purged == [xr[1] EXCEPT !.kids = <<>>, !.body = <<>>]
             r == netconf_operation_failed_xml(<<purged>>, <<Chr("rpc")>>,
                                               m.reason)
         IN  [retval |-> IF r.retval < 0 THEN -1 ELSE 0, xret |-> r.xret]
    ELSE [retval |-> 1, xret |-> <<xml_merge(xr[1], x.kids)>>]

-----------------------------------------------------------------------------
(* Calls.  The caller holds a cbuf and an output tree; one builder call is *)
(* made on them.  Arguments a function does not take are recorded as NULL. *)

\* missing_choice arguments: NULL or the name of a choice
Choices == {NULL, <<<<Chr("c")>>>>}

\* list entries: children k1, k2 (k2 may be missing)
Leaf(n, v) == [name |-> n, body |-> <<Chr(v)>>, kids |-> <<>>]
ListEntries == {[name |-> "entry", body |-> <<>>,
                 kids |-> <<Leaf("k1", "1"), Leaf("k2", "2")>>],
                [name |-> "entry", body |-> <<>>,
                 kids |-> <<Leaf("k1", "1")>>]}

\* component vectors of a unique constraint
Cvks == {<<>>, <<"k1">>, <<"k1", "k2">>}

NoCall == [fn |-> "", form |-> "", type |-> NULL, arg |-> NULL,
           message |-> NULL, retval |-> 0]

Called(fn, form, type, arg, message, rv) ==
    [fn |-> fn, form |-> form, type |-> type, arg |-> arg,
     message |-> message, retval |-> rv]

Call_netconf_in_use ==
    \E type \in Types, message \in Messages :
        LET r == netconf_in_use(cb, type, message) IN
        /\ last = NoCall
        /\ cb0' = cb
        /\ cb' = r.cb
        /\ UNCHANGED <<xret0, xret, mainvars, extvars>>
        /\ last' = Called("netconf_in_use", "cbuf", <<type>>, NULL, message, r.retval)

Call_netconf_invalid_value_xml ==
    \E type \in Types, message \in Messages :
        LET r == netconf_invalid_value_xml(xret, type, message) IN
        /\ last = NoCall
        /\ xret0' = xret
        /\ xret' = r.xret
        /\ UNCHANGED <<cb0, cb, mainvars, extvars>>
        /\ last' = Called("netconf_invalid_value_xml", "xml", <<type>>, NULL, message, r.retval)

Call_netconf_invalid_value ==
    \E type \in Types, message \in Messages :
        LET r == netconf_invalid_value(cb, type, message) IN
        /\ last = NoCall
        /\ cb0' = cb
        /\ cb' = r.cb
        /\ UNCHANGED <<xret0, xret, mainvars, extvars>>
        /\ last' = Called("netconf_invalid_value", "cbuf", <<type>>, NULL, message, r.retval)

Call_netconf_too_big ==
    \E type \in Types, message \in Messages :
        LET r == netconf_too_big(cb, type, message) IN
        /\ last = NoCall
        /\ cb0' = cb
        /\ cb' = r.cb
        /\ UNCHANGED <<xret0, xret, mainvars, extvars>>
        /\ last' = Called("netconf_too_big", "cbuf", <<type>>, NULL, message, r.retval)

Call_netconf_missing_attribute ==
    \E type \in Types, info \in Infos, message \in Messages :
        LET r == netconf_missing_attribute(cb, type, info, message) IN
        /\ last = NoCall
        /\ cb0' = cb
        /\ cb' = r.cb
        /\ UNCHANGED <<xret0, xret, mainvars, extvars>>
        /\ last' = Called("netconf_missing_attribute", "cbuf", <<type>>, <<info>>, message, r.retval)

Call_netconf_bad_attribute ==
    \E type \in Types, info \in Infos, message \in Messages :
        LET r == netconf_bad_attribute(cb, type, info, message) IN
        /\ last = NoCall
        /\ cb0' = cb
        /\ cb' = r.cb
        /\ UNCHANGED <<xret0, xret, mainvars, extvars>>
        /\ last' = Called("netconf_bad_attribute", "cbuf", <<type>>, <<info>>, message, r.retval)

Call_netconf_unknown_attribute ==
    \E type \in Types, info \in Infos, message \in Messages :
        LET r == netconf_unknown_attribute(cb, type, info, message) IN
        /\ last = NoCall
        /\ cb0' = cb
        /\ cb' = r.cb
        /\ UNCHANGED <<xret0, xret, mainvars, extvars>>
        /\ last' = Called("netconf_unknown_attribute", "cbuf", <<type>>, <<info>>, message, r.retval)

Call_netconf_missing_element ==
    \E type \in Types, element \in Elements, message \in Messages :
        LET r == netconf_missing_element(cb, type, element, message) IN
        /\ last = NoCall
        /\ cb0' = cb
        /\ cb' = r.cb
        /\ UNCHANGED <<xret0, xret, mainvars, extvars>>
        /\ last' = Called("netconf_missing_element", "cbuf", <<type>>, <<element>>, message, r.retval)

Call_netconf_missing_element_xml ==
    \E type \in Types, element \in Elements, message \in Messages :
        LET r == netconf_missing_element_xml(xret, type, element, message) IN
        /\ last = NoCall
        /\ xret0' = xret
        /\ xret' = r.xret
        /\ UNCHANGED <<cb0, cb, mainvars, extvars>>
        /\ last' = Called("netconf_missing_element_xml", "xml", <<type>>, <<element>>, message, r.retval)

Call_netconf_bad_element ==
    \E type \in Types, element \in Elements, message \in Messages :
        LET r == netconf_bad_element(cb, type, element, message) IN
        /\ last = NoCall
        /\ cb0' = cb
        /\ cb' = r.cb
        /\ UNCHANGED <<xret0, xret, mainvars, extvars>>
        /\ last' = Called("netconf_bad_element", "cbuf", <<type>>, <<element>>, message, r.retval)

Call_netconf_bad_element_xml ==
    \E type \in Types, element \in Elements, message \in Messages :
        LET r == netconf_bad_element_xml(xret, type, element, message) IN
        /\ last = NoCall
        /\ xret0' = xret
        /\ xret' = r.xret
        /\ UNCHANGED <<cb0, cb, mainvars, extvars>>
        /\ last' = Called("netconf_bad_element_xml", "xml", <<type>>, <<element>>, message, r.retval)

Call_netconf_unknown_element ==
    \E type \in Types, element \in Elements, message \in Messages :
        LET r == netconf_unknown_element(cb, type, element, message) IN
        /\ last = NoCall
        /\ cb0' = cb
        /\ cb' = r.cb
        /\ UNCHANGED <<xret0, xret, mainvars, extvars>>
        /\ last' = Called("netconf_unknown_element", "cbuf", <<type>>, <<element>>, message, r.retval)

Call_netconf_unknown_element_xml ==
    \E type \in Types, element \in Elements, message \in Messages :
        LET r == netconf_unknown_element_xml(xret, type, element, message) IN
        /\ last = NoCall
        /\ xret0' = xret
        /\ xret' = r.xret
        /\ UNCHANGED <<cb0, cb, mainvars, extvars>>
        /\ last' = Called("netconf_unknown_element_xml", "xml", <<type>>, <<element>>, message, r.retval)

Call_netconf_unknown_namespace ==
    \E type \in Types, namespace \in Elements, message \in Messages :
        LET r == netconf_unknown_namespace(cb, type, namespace, message) IN
        /\ last = NoCall
        /\ cb0' = cb
        /\ cb' = r.cb
        /\ UNCHANGED <<xret0, xret, mainvars, extvars>>
        /\ last' = Called("netconf_unknown_namespace", "cbuf", <<type>>, <<namespace>>, message, r.retval)

Call_netconf_unknown_namespace_xml ==
    \E type \in Types, namespace \in Elements, message \in Messages :
        LET r == netconf_unknown_namespace_xml(xret, type, namespace, message) IN
        /\ last = NoCall
        /\ xret0' = xret
        /\ xret' = r.xret
        /\ UNCHANGED <<cb0, cb, mainvars, extvars>>
        /\ last' = Called("netconf_unknown_namespace_xml", "xml", <<type>>, <<namespace>>, message, r.retval)

Call_netconf_access_denied ==
    \E type \in Types, message \in Messages :
        LET r == netconf_access_denied(cb, type, message) IN
        /\ last = NoCall
        /\ cb0' = cb
        /\ cb' = r.cb
        /\ UNCHANGED <<xret0, xret, mainvars, extvars>>
        /\ last' = Called("netconf_access_denied", "cbuf", <<type>>, NULL, message, r.retval)

Call_netconf_access_denied_xml ==
    \E type \in Types, message \in Messages :
        LET r == netconf_access_denied_xml(xret, type, message) IN
        /\ last = NoCall
        /\ xret0' = xret
        /\ xret' = r.xret
        /\ UNCHANGED <<cb0, cb, mainvars, extvars>>
        /\ last' = Called("netconf_access_denied_xml", "xml", <<type>>, NULL, message, r.retval)

Call_netconf_lock_denied ==
    \E info \in Infos, message \in Messages :
        LET r == netconf_lock_denied(cb, info, message) IN
        /\ last = NoCall
        /\ cb0' = cb
        /\ cb' = r.cb
        /\ UNCHANGED <<xret0, xret, mainvars, extvars>>
        /\ last' = Called("netconf_lock_denied", "cbuf", NULL, <<info>>, message, r.retval)

Call_netconf_resource_denied ==
    \E type \in Types, message \in Messages :
        LET r == netconf_resource_denied(cb, type, message) IN
        /\ last = NoCall
        /\ cb0' = cb
        /\ cb' = r.cb
        /\ UNCHANGED <<xret0, xret, mainvars, extvars>>
        /\ last' = Called("netconf_resource_denied", "cbuf", <<type>>, NULL, message, r.retval)

Call_netconf_rollback_failed ==
    \E type \in Types, message \in Messages :
        LET r == netconf_rollback_failed(cb, type, message) IN
        /\ last = NoCall
        /\ cb0' = cb
        /\ cb' = r.cb
        /\ UNCHANGED <<xret0, xret, mainvars, extvars>>
        /\ last' = Called("netconf_rollback_failed", "cbuf", <<type>>, NULL, message, r.retval)

Call_netconf_data_exists ==
    \E message \in Messages :
        LET r == netconf_data_exists(cb, message) IN
        /\ last = NoCall
        /\ cb0' = cb
        /\ cb' = r.cb
        /\ UNCHANGED <<xret0, xret, mainvars, extvars>>
        /\ last' = Called("netconf_data_exists", "cbuf", NULL, NULL, message, r.retval)

Call_netconf_data_missing ==
    \E missing_choice \in Choices, message \in Messages :
        LET r == netconf_data_missing(cb, missing_choice, message) IN
        /\ last = NoCall
        /\ cb0' = cb
        /\ cb' = r.cb
        /\ UNCHANGED <<xret0, xret, mainvars, extvars>>
        /\ last' = Called("netconf_data_missing", "cbuf", NULL, missing_choice, message, r.retval)

Call_netconf_data_missing_xml ==
    \E missing_choice \in Choices, message \in Messages :
        LET r == netconf_data_missing_xml(xret, missing_choice, message) IN
        /\ last = NoCall
        /\ xret0' = xret
        /\ xret' = r.xret
        /\ UNCHANGED <<cb0, cb, mainvars, extvars>>
        /\ last' = Called("netconf_data_missing_xml", "xml", NULL, missing_choice, message, r.retval)

Call_netconf_operation_not_supported ==
    \E type \in Types, message \in Messages :
        LET r == netconf_operation_not_supported(cb, type, message) IN
        /\ last = NoCall
        /\ cb0' = cb
        /\ cb' = r.cb
        /\ UNCHANGED <<xret0, xret, mainvars, extvars>>
        /\ last' = Called("netconf_operation_not_supported", "cbuf", <<type>>, NULL, message, r.retval)

Call_netconf_operation_failed ==
    \E type \in Types, message \in Messages :
        LET r == netconf_operation_failed(cb, type, message) IN
        /\ last = NoCall
        /\ cb0' = cb
        /\ cb' = r.cb
        /\ UNCHANGED <<xret0, xret, mainvars, extvars>>
        /\ last' = Called("netconf_operation_failed", "cbuf", <<type>>, NULL, message, r.retval)

Call_netconf_operation_failed_xml ==
    \E type \in Types, message \in Messages :
        LET r == netconf_operation_failed_xml(xret, type, message) IN
        /\ last = NoCall
        /\ xret0' = xret
        /\ xret' = r.xret
        /\ UNCHANGED <<cb0, cb, mainvars, extvars>>
        /\ last' = Called("netconf_operation_failed_xml", "xml", <<type>>, NULL, message, r.retval)

Call_netconf_malformed_message ==
    \E message \in Messages :
        LET r == netconf_malformed_message(cb, message) IN
        /\ last = NoCall
        /\ cb0' = cb
        /\ cb' = r.cb
        /\ UNCHANGED <<xret0, xret, mainvars, extvars>>
        /\ last' = Called("netconf_malformed_message", "cbuf", NULL, NULL, message, r.retval)

Call_netconf_malformed_message_xml ==
    \E message \in Messages :
        LET r == netconf_malformed_message_xml(xret, message) IN
        /\ last = NoCall
        /\ xret0' = xret
        /\ xret' = r.xret
        /\ UNCHANGED <<cb0, cb, mainvars, extvars>>
        /\ last' = Called("netconf_malformed_message_xml", "xml", NULL, NULL, message, r.retval)

Call_netconf_data_not_unique_xml ==
    \E x \in ListEntries, cvk \in Cvks :
        LET r == netconf_data_not_unique_xml(xret, x, cvk) IN
        /\ last = NoCall
        /\ xret0' = xret
        /\ xret' = r.xret
        /\ UNCHANGED <<cb0, cb, mainvars, extvars>>
        /\ last' = Called("netconf_data_not_unique_xml", "xml", NULL, <<x, cvk>>, NULL, r.retval)

Call_netconf_minmax_elements_xml ==
    \E x \in ListEntries, max \in {0, 1} :
        LET r == netconf_minmax_elements_xml(xret, x, max) IN
        /\ last = NoCall
        /\ xret0' = xret
        /\ xret' = r.xret
        /\ UNCHANGED <<cb0, cb, mainvars, extvars>>
        /\ last' = Called("netconf_minmax_elements_xml", "xml", NULL, <<x>>, NULL, r.retval)

Call_netconf_trymerge ==
    \E x \in ListEntries, m \in MergeOutcomes :
        LET r == netconf_trymerge(x, xret, m) IN
        /\ last = NoCall
        /\ xret0' = xret
        /\ xret' = r.xret
        /\ UNCHANGED <<cb0, cb, mainvars, extvars>>
        /\ last' = Called("netconf_trymerge", "xml", NULL, <<x, m.ret>>, m.reason, r.retval)

-----------------------------------------------------------------------------
(* backend main(): start-up, event loop, termination *)

\* signals backend_sig_term may handle in one run
MaxSignals == 2
\* events the loop may handle in one run
MaxEvents == 2

argvars == <<zap, once, startup_mode, sockfamily>>
fsvars  == <<pidfile, sockfile, daemon>>
sigvars == <<handlers, clicon_exit, sigcount>>
hist    == <<r2s, accepted>>
nacmvars == <<nacm_mode, nacm_file, nacm_ext, nacm_xtree>>
dbvars  == <<running0, running, tmp, candidate>>
stvars  == <<cbret, recorded, trace>>

\* exit status of a process that returns r from main() or calls exit(r)
ExitStatus(r) == r % 256

\* pidfile_get(pidfile, &pid): pid is set iff the file names a live process
pidfile_get == pidfile = "other" /\ daemon

\* a backend_terminate that leaves the pidfile in place
backend_terminate_keep(pf, sf) ==
    [ss       |-> FALSE,
     released |-> TRUE,
     pidfile  |-> pf,
     sockfile |-> IF opts /\ sockfamily = "UNIX" THEN "none" ELSE sf]

\* backend_terminate(h): what it leaves of the pidfile, the socket path,
\* the server socket and the handle
backend_terminate(pf, sf) ==
    [ss       |-> FALSE,
     released |-> TRUE,
     pidfile  |-> IF opts THEN "none" ELSE pf,
     sockfile |-> IF opts /\ sockfamily = "UNIX" THEN "none" ELSE sf]

\* backend_sig_term(arg): log the first signal, set the exit flag
backend_sig_term(i) ==
    [i |-> i + 1, notice |-> (i = 0), exit |-> TRUE]

\* a ret2status that takes every -1 for a parse error
ret2status_lenient(ret, e, st) ==
    CASE ret = -1 -> [retval |-> 0, status |-> "STARTUP_ERR", reset |-> TRUE]
      [] ret = 0 -> [retval |-> 0, status |-> "STARTUP_INVALID", reset |-> FALSE]
      [] ret = 1 -> [retval |-> 0, status |-> "STARTUP_OK", reset |-> FALSE]
      [] OTHER   -> [retval |-> 0, status |-> st, reset |-> FALSE]

\* ret2status(ret, &status), with clicon_suberrno e and *status st on entry
ret2status(ret, e, st) ==
    CASE ret = -1 ->
             IF e # "XMLPARSE_ERRNO"
             THEN [retval |-> -1, status |-> st, reset |-> FALSE]
             ELSE [retval |-> 0, status |-> "STARTUP_ERR", reset |-> TRUE]
      [] ret = 0 -> [retval |-> 0, status |-> "STARTUP_INVALID", reset |-> FALSE]
      [] ret = 1 -> [retval |-> 0, status |-> "STARTUP_OK", reset |-> FALSE]
      [] OTHER   -> [retval |-> 0, status |-> st, reset |-> FALSE]

\* what startup_mode_startup() may return, with the clicon_suberrno it sets
\* and whether it leaves invalidation text in cbret
StartupResults ==
    {[ret |-> 1, e |-> "none", info |-> FALSE],
     [ret |-> 0, e |-> "none", info |-> TRUE],
     [ret |-> -1, e |-> "XMLPARSE_ERRNO", info |-> TRUE],
     [ret |-> -1, e |-> "XMLPARSE_ERRNO", info |-> FALSE],
     [ret |-> -1, e |-> "other", info |-> FALSE]}

R2S(o, st, r) ==
    [called |-> TRUE, ret |-> o.ret, suberrno |-> o.e, before |-> st,
     after |-> r.status, retval |-> r.retval, reset |-> r.reset]

-----------------------------------------------------------------------------
(* Datastores.  The content of a datastore is a set of configuration items. *)

\* what the previous run may have left in running
PersistedRunning == {{}, {"a"}}

\* the content of the startup datastore, of the failsafe datastore and of
\* the extra XML (-c file and plugin reset)
StartupContent  == {"s"}
FailsafeContent == {"f"}
ExtraContents   == {{}, {"x"}}

\* one step of the start-up: the function called, the datastore it is given,
\* the content it reads or writes, whether it succeeded
Step(fn, db, content, ok) ==
    [fn |-> fn, db |-> db, content |-> content, ok |-> ok]

\* a variant that validates the startup datastore in every mode
StartupDb_startup(mode) == "startup"

\* the datastore startup_mode_startup is given in a startup mode
StartupDb(mode) == IF mode = "running" THEN "tmp" ELSE "startup"

\* a variant that merges the extra XML in every mode
RunsExtraxml_all_modes(st, mode) == st = "STARTUP_OK"

\* if (status == STARTUP_OK && startup_mode != SM_NONE)
RunsExtraxml(st, mode) == st = "STARTUP_OK" /\ mode # "none"

\* a variant that loads the failsafe only after a validation failure
NeedsFailsafe_invalid(st) == st = "STARTUP_INVALID"

\* if (status != STARTUP_OK)
NeedsFailsafe(st) == st # "STARTUP_OK"

\* the functions whose return value is "from xml validation" (ret2status),
\* and startup_failsafe, which commits the failsafe datastore
Validating == {"startup_mode_startup", "startup_extraxml", "startup_failsafe"}

-----------------------------------------------------------------------------
(* NACM *)

AllOps == {"create", "read", "update", "delete", "exec"}

Rule(name, module, rpc, ops, action) ==
    [name |-> name, module |-> module, rpc |-> rpc, ops |-> ops,
     action |-> action]

\* the ruleset of test_nacm_ext.sh
TestNacm ==
    [enable |-> TRUE, read_default |-> "permit", write_default |-> "deny",
     exec_default |-> "deny",
     groups |-> [admin |-> {"andy"}, limited |-> {"wilma"},
                 guest |-> {"guest"}],
     rule_lists |->
        << [name |-> "guest-acl", groups |-> {"guest"},
            rules |-> <<Rule("deny-ncm", "*", "", AllOps, "deny")>>],
           [name |-> "limited-acl", groups |-> {"limited"},
            rules |-> <<Rule("permit-get", "*", "get", {"exec"}, "permit"),
                        Rule("permit-get-config", "*", "get-config", {"exec"},
                             "permit")>>],
           [name |-> "admin-acl", groups |-> {"admin"},
            rules |-> <<Rule("permit-all", "*", "", AllOps, "permit")>>] >>]

\* a ruleset where a user is in two groups and rules of both actions match
OrderNacm ==
    [enable |-> TRUE, read_default |-> "deny", write_default |-> "permit",
     exec_default |-> "permit",
     groups |-> [admin |-> {"andy"}, limited |-> {"wilma", "andy"},
                 guest |-> {"guest", "wilma"}],
     rule_lists |->
        << [name |-> "limited-acl", groups |-> {"limited"},
            rules |-> <<Rule("permit-read", "nacm-example", "", {"read"},
                             "permit"),
                        Rule("deny-example", "*", "example", {"exec"}, "deny"),
                        Rule("permit-exec", "*", "*", {"exec"}, "permit")>>],
           [name |-> "guest-acl", groups |-> {"guest"},
            rules |-> <<Rule("deny-ncm", "*", "", AllOps, "deny")>>],
           [name |-> "admin-acl", groups |-> {"admin"},
            rules |-> <<Rule("permit-all", "*", "", AllOps, "permit")>>] >>]

Rulesets == {TestNacm, OrderNacm}

\* what CLICON_NACM_FILE may name, and the two failures of the load that are
\* not the file's: the YANG module of NACM does not load, the handle does
\* not take the tree
NacmFiles ==
    {[state |-> st, tree |-> NULL] :
        st \in {"unset", "missing", "directory", "unreadable", "noyang",
                "badxml", "notree", "noset"}}
    \cup {[state |-> "ok", tree |-> <<n>>] : n \in Rulesets}

\* an external NACM load that does not check the file type nor the tree
nacm_load_external_unchecked(f) ==
    CASE f.state = "unset"      -> [retval |-> -1, xt |-> NULL]
      [] f.state = "missing"    -> [retval |-> -1, xt |-> NULL]
      [] f.state = "unreadable" -> [retval |-> -1, xt |-> NULL]
      [] f.state = "noyang"     -> [retval |-> -1, xt |-> NULL]
      [] f.state = "badxml"     -> [retval |-> -1, xt |-> NULL]
      [] f.state = "noset"      -> [retval |-> -1, xt |-> NULL]
      [] OTHER                  -> [retval |-> 0, xt |-> f.tree]

\* nacm_load_external(h): the retval and the tree given to clicon_nacm_ext_set
nacm_load_external(f) ==
    CASE f.state = "unset"      -> [retval |-> -1, xt |-> NULL]
      [] f.state = "missing"    -> [retval |-> -1, xt |-> NULL]
      [] f.state = "directory"  -> [retval |-> -1, xt |-> NULL]
      [] f.state = "unreadable" -> [retval |-> -1, xt |-> NULL]
      [] f.state = "noyang"     -> [retval |-> -1, xt |-> NULL]
      [] f.state = "badxml"     -> [retval |-> -1, xt |-> NULL]
      [] f.state = "notree"     -> [retval |-> -1, xt |-> NULL]
      [] f.state = "noset"      -> [retval |-> -1, xt |-> NULL]
      [] OTHER                  -> [retval |-> 0, xt |-> f.tree]

\* the users, and the requests of the test: GET and PUT of nacm-example:x,
\* the rpc example of clixon-example
Users == {"andy", "wilma", "guest"}

Request(user, op, module, rpc) ==
    [user |-> user, op |-> op, module |-> module, rpc |-> rpc]

Requests ==
    {Request(u, "read", "nacm-example", "") : u \in Users}
    \cup {Request(u, "update", "nacm-example", "") : u \in Users}
    \cup {Request(u, "exec", "clixon-example", "example") : u \in Users}

\* the groups of a user
UserGroups(n, user) == {g \in DOMAIN n.groups : user \in n.groups[g]}

\* a rule matches a request: module-name, rpc-name (a rule with an rpc-name
\* is a protocol-operation rule) and access-operations
RuleMatches(rule, req) ==
    /\ rule.module \in {"*", req.module}
    /\ rule.rpc = "" \/ (req.op = "exec" /\ rule.rpc \in {"*", req.rpc})
    /\ req.op \in rule.ops

\* the first rule of a list that matches, or NULL
RECURSIVE ScanRules(_, _)
ScanRules(rules, req) ==
    IF rules = <<>> THEN NULL
    ELSE IF RuleMatches(Head(rules), req) THEN <<Head(rules)>>
    ELSE ScanRules(Tail(rules), req)

\* a scan that goes on after a match: the last matching rule
RECURSIVE ScanRuleListsLast(_, _, _)
ScanRuleListsLast(lists, gs, req) ==
    IF lists = <<>> THEN NULL
    ELSE LET rest == ScanRuleListsLast(Tail(lists), gs, req)
             m    == IF Head(lists).groups \cap gs = {} THEN NULL
                     ELSE ScanRules(Head(lists).rules, req)
         IN  IF rest # NULL THEN rest ELSE m

\* the rule-lists in order, those of the user's groups only
RECURSIVE ScanRuleLists(_, _, _)
ScanRuleLists(lists, gs, req) ==
    IF lists = <<>> THEN NULL
    ELSE LET m == IF Head(lists).groups \cap gs = {} THEN NULL
                  ELSE ScanRules(Head(lists).rules, req)
         IN  IF m # NULL THEN m ELSE ScanRuleLists(Tail(lists), gs, req)

NacmDefault(n, op) ==
    CASE op = "read" -> n.read_default
      [] op = "exec" -> n.exec_default
      [] OTHER       -> n.write_default

\* the decision on a request under the ruleset in force (NULL: NACM is off)
nacm_access(nacm, req) ==
    IF nacm = NULL \/ ~nacm[1].enable
    THEN [permit |-> TRUE, origin |-> "disabled"]
    ELSE LET m == ScanRuleLists(nacm[1].rule_lists,
                                UserGroups(nacm[1], req.user), req)
         IN  IF m # NULL
             THEN [permit |-> m[1].action = "permit", origin |-> "rule"]
             ELSE [permit |-> NacmDefault(nacm[1], req.op) = "permit",
                   origin |-> "default"]

\* the reply to a denied request, always of type application
nacm_denied_application(req, d) ==
    netconf_access_denied_xml(NULL, <<Chr("application")>>,
        <<<<Chr(IF d.origin = "rule" THEN "access denied"
                                     ELSE "default deny")>>>>).xret

\* the reply to a denied request: access-denied, of type protocol for an
\* rpc and application for data, with the message of the origin
nacm_denied(req, d) ==
    netconf_access_denied_xml(NULL,
        <<Chr(IF req.op = "exec" THEN "protocol" ELSE "application")>>,
        <<<<Chr(IF d.origin = "rule" THEN "access denied"
                                     ELSE "default deny")>>>>).xret

\* a handler that edits before it asks NACM
from_client_edit_first(req, d, db) ==
    IF req.op = "update" THEN (db \ Users) \cup {req.user} ELSE db

\* what a request makes of a datastore: a permitted PUT sets x, everything
\* else leaves it as it is
from_client(req, d, db) ==
    IF d.permit /\ req.op = "update" THEN (db \ Users) \cup {req.user} ELSE db

NoRequest ==
    [req |-> Request("", "", "", ""), nacm |-> NULL,
     decision |-> [permit |-> TRUE, origin |-> ""], reply |-> NULL,
     running |-> {}, candidate |-> NULL]

-----------------------------------------------------------------------------
(* main() *)

\* first getopt pass: -D, -f, -l
Main_getopt1 ==
    /\ pc = "start"
    /\ \E out \in {"ok", "done", "usage"} :
          /\ pc' = CASE out = "ok" -> "options" [] out = "done" -> "done"
                     [] OTHER -> "exit"
          /\ fatal' = (out # "ok")
          /\ exitcode' = IF out = "usage" THEN ExitStatus(-1) ELSE exitcode
    /\ UNCHANGED <<encvars, extvars, argvars, nacmvars, dbvars, stvars, lastreq,
                   fsvars, sigvars, hist, opts, status, suberrno,
                   retval, ss, events, released, log>>

\* clicon_options_main(h, yspecfg)
Main_options ==
    /\ pc = "options"
    /\ \E ok \in BOOLEAN :
          /\ pc' = IF ok THEN "nacm" ELSE "exit"
          /\ opts' = ok
          /\ fatal' = ~ok
          /\ exitcode' = IF ok THEN exitcode ELSE ExitStatus(-1)
    /\ UNCHANGED <<encvars, extvars, argvars, nacmvars, dbvars, stvars, lastreq,
                   fsvars, sigvars, hist, status, suberrno, retval,
                   ss, events, released, log>>

\* CLICON_NACM_MODE external: nacm_load_external(h)
Main_nacm ==
    /\ pc = "nacm"
    /\ LET r == IF nacm_mode = "external" THEN nacm_load_external(nacm_file)
                ELSE [retval |-> 0, xt |-> NULL]
       IN  /\ pc' = IF r.retval < 0 THEN "done" ELSE "getopt2"
           /\ fatal' = (r.retval < 0)
           /\ nacm_ext' = r.xt
    /\ UNCHANGED <<encvars, extvars, argvars, nacm_mode, nacm_file, nacm_xtree,
                   dbvars, stvars, lastreq, fsvars, sigvars, hist, opts, status, suberrno,
                   retval, exitcode, ss, events, released, log>>

\* second getopt pass: the operational arguments
Main_getopt2 ==
    /\ pc = "getopt2"
    /\ \E out \in {"ok", "done", "usage"} :
          /\ pc' = CASE out = "ok" -> "pidcheck" [] out = "done" -> "done"
                     [] OTHER -> "exit"
          /\ fatal' = (out # "ok")
          /\ exitcode' = IF out = "usage" THEN ExitStatus(-1) ELSE exitcode
    /\ UNCHANGED <<encvars, extvars, argvars, nacmvars, dbvars, stvars, lastreq,
                   fsvars, sigvars, hist, opts, status, suberrno,
                   retval, ss, events, released, log>>

\* if (zap): kill the old daemon, unlink, backend_terminate, exit(0)
Main_zap ==
    /\ pc = "pidcheck"
    /\ zap
    /\ \E killed \in BOOLEAN :
          IF pidfile_get /\ ~killed
          THEN /\ pc' = "exit"
               /\ exitcode' = ExitStatus(-1)
               /\ fatal' = TRUE
               /\ UNCHANGED <<fsvars, ss, released>>
          ELSE LET t == backend_terminate("none",
                            IF sockfamily = "UNIX" THEN "none" ELSE sockfile)
               IN  /\ daemon' = FALSE
                   /\ pidfile' = t.pidfile
                   /\ sockfile' = t.sockfile
                   /\ ss' = t.ss
                   /\ released' = t.released
                   /\ pc' = "exit"
                   /\ exitcode' = ExitStatus(0)
                   /\ UNCHANGED fatal
    /\ UNCHANGED <<encvars, extvars, argvars, nacmvars, dbvars, stvars, lastreq,
                   sigvars, hist, opts, status, suberrno, retval,
                   events, log>>

\* else if (pid): "Daemon already running", return -1
Main_already_running ==
    /\ pc = "pidcheck"
    /\ ~zap
    /\ pidfile_get
    /\ log' = log \cup {"already running"}
    /\ pc' = "exit"
    /\ exitcode' = ExitStatus(-1)
    /\ fatal' = TRUE
    /\ UNCHANGED <<encvars, extvars, argvars, nacmvars, dbvars, stvars, lastreq,
                   fsvars, sigvars, hist, opts, status, suberrno,
                   retval, ss, events, released>>

\* no old process: unlink a left-over pidfile and socket path
Main_unlink_stale ==
    /\ pc = "pidcheck"
    /\ ~zap
    /\ ~pidfile_get
    /\ pidfile' = "none"
    /\ sockfile' = IF sockfamily = "UNIX" THEN "none" ELSE sockfile
    /\ pc' = "group"
    /\ UNCHANGED <<encvars, extvars, argvars, nacmvars, dbvars, stvars, lastreq,
                   daemon, sigvars, hist, opts, status, suberrno,
                   retval, exitcode, ss, events, released, log, fatal>>

\* clicon_sock_group / group_name2gid: return -1 when there is no such group
Main_group ==
    /\ pc = "group"
    /\ \E ok \in BOOLEAN :
          /\ pc' = IF ok THEN "setup" ELSE "exit"
          /\ fatal' = ~ok
          /\ exitcode' = IF ok THEN exitcode ELSE ExitStatus(-1)
    /\ UNCHANGED <<encvars, extvars, argvars, nacmvars, dbvars, stvars, lastreq,
                   fsvars, sigvars, hist, opts, status, suberrno,
                   retval, ss, events, released, log>>

\* streams, xmldb plugin, yang modules, xmldb options, rpc callbacks,
\* module state; the startup mode must be defined; running is created
Main_setup ==
    /\ pc = "setup"
    /\ \E out \in {"ok", "done", "return"} :
          /\ pc' = CASE out = "ok" -> "startup" [] out = "done" -> "done"
                     [] OTHER -> "exit"
          /\ fatal' = (out # "ok")
          /\ exitcode' = IF out = "return" THEN ExitStatus(-1) ELSE exitcode
          /\ nacm_xtree' \in IF out = "ok" THEN {nacm_ext}
                              ELSE {nacm_xtree, nacm_ext}
    /\ UNCHANGED <<encvars, extvars, argvars, nacm_mode, nacm_file, nacm_ext, dbvars,
                   stvars, lastreq, fsvars, sigvars, hist, opts, status,
                   suberrno, retval, ss, events, released, log>>

\* a variant whose SM_INIT case leaves the persisted running content in place
Main_startup_init_none_keep ==
    /\ pc = "startup"
    /\ startup_mode \in {"init", "none"}
    /\ \E reset \in BOOLEAN, ok \in BOOLEAN :
          LET wiped == IF startup_mode = "init"
                       THEN <<Step("startup_db_reset", "running", {}, reset)>>
                       ELSE <<>>
              went  == startup_mode = "none" \/ reset
          IN  /\ running' = running
              /\ trace' = trace \o wiped \o
                    (IF went
                     THEN <<Step("backend_plugin_initiate", "", {}, ok)>>
                     ELSE <<>>)
              /\ pc' = IF went /\ ok THEN "extraxml" ELSE "done"
              /\ status' = IF went /\ ok THEN "STARTUP_OK" ELSE status
              /\ fatal' = ~(went /\ ok)
    /\ UNCHANGED <<encvars, extvars, argvars, nacmvars, running0, tmp, candidate, cbret,
                   recorded, lastreq, fsvars, sigvars, hist, opts, suberrno,
                   retval, exitcode, ss, events, released, log>>

\* case SM_INIT: startup_db_reset(h, "running"), falling through to
\* case SM_NONE: backend_plugin_initiate; status = STARTUP_OK
Main_startup_init_none ==
    /\ pc = "startup"
    /\ startup_mode \in {"init", "none"}
    /\ \E reset \in BOOLEAN, ok \in BOOLEAN :
          LET wiped == IF startup_mode = "init"
                       THEN <<Step("startup_db_reset", "running", {}, reset)>>
                       ELSE <<>>
              init  == startup_mode = "init" /\ reset
              went  == startup_mode = "none" \/ reset
          IN  /\ running' = IF init THEN {} ELSE running
              /\ trace' = trace \o wiped \o
                    (IF went
                     THEN <<Step("backend_plugin_initiate", "", {}, ok)>>
                     ELSE <<>>)
              /\ pc' = IF went /\ ok THEN "extraxml" ELSE "done"
              /\ status' = IF went /\ ok THEN "STARTUP_OK" ELSE status
              /\ fatal' = ~(went /\ ok)
    /\ UNCHANGED <<encvars, extvars, argvars, nacmvars, running0, tmp, candidate, cbret,
                   recorded, lastreq, fsvars, sigvars, hist, opts, suberrno,
                   retval, exitcode, ss, events, released, log>>

\* case SM_RUNNING: xmldb_copy(h, "running", "tmp"),
\* startup_mode_startup(h, "tmp", cbret), ret2status
Main_startup_running ==
    /\ pc = "startup"
    /\ startup_mode = "running"
    /\ \/ /\ trace' = Append(trace, Step("xmldb_copy", "tmp", running, FALSE))
          /\ pc' = "done"
          /\ fatal' = TRUE
          /\ UNCHANGED <<status, suberrno, r2s, running, tmp, cbret>>
       \/ \E o \in StartupResults :
             LET r  == ret2status(o.ret, o.e, status)
                 db == StartupDb(startup_mode)
                 c  == IF db = "tmp" THEN running ELSE StartupContent
             IN  /\ tmp' = running
                 /\ trace' = trace \o
                       <<Step("xmldb_copy", "tmp", running, TRUE),
                         Step("startup_mode_startup", db, c, o.ret = 1)>>
                 /\ running' = IF o.ret = 1 THEN c ELSE running
                 /\ cbret' = o.info
                 /\ r2s' = R2S(o, status, r)
                 /\ status' = r.status
                 /\ suberrno' = IF r.reset THEN "none" ELSE o.e
                 /\ pc' = IF r.retval < 0 THEN "done" ELSE "extraxml"
                 /\ fatal' = (r.retval < 0)
    /\ UNCHANGED <<encvars, extvars, argvars, nacmvars, running0, candidate, recorded,
                   lastreq, fsvars, sigvars, accepted, opts, retval, exitcode,
                   ss, events, released, log>>

\* case SM_STARTUP: startup_mode_startup(h, "startup", cbret), ret2status
Main_startup_startup ==
    /\ pc = "startup"
    /\ startup_mode = "startup"
    /\ \E o \in StartupResults :
          LET r  == ret2status(o.ret, o.e, status)
              db == StartupDb(startup_mode)
              c  == IF db = "tmp" THEN tmp ELSE StartupContent
          IN  /\ trace' = Append(trace,
                    Step("startup_mode_startup", db, c, o.ret = 1))
              /\ running' = IF o.ret = 1 THEN c ELSE running
              /\ cbret' = o.info
              /\ r2s' = R2S(o, status, r)
              /\ status' = r.status
              /\ suberrno' = IF r.reset THEN "none" ELSE o.e
              /\ pc' = IF r.retval < 0 THEN "done" ELSE "extraxml"
              /\ fatal' = (r.retval < 0)
    /\ UNCHANGED <<encvars, extvars, argvars, nacmvars, running0, tmp, candidate,
                   recorded, lastreq, fsvars, sigvars, accepted, opts, retval,
                   exitcode, ss, events, released, log>>

\* if (status == STARTUP_OK && startup_mode != SM_NONE): startup_extraxml,
\* ret2status
Main_extraxml ==
    /\ pc = "extraxml"
    /\ IF RunsExtraxml(status, startup_mode)
       THEN \E ret \in {-1, 0, 1}, extra \in ExtraContents :
               LET o == [ret |-> ret, e |-> suberrno]
                   r == ret2status(ret, suberrno, status)
               IN  /\ trace' = Append(trace,
                         Step("startup_extraxml", "running", extra, ret = 1))
                   /\ running' = IF ret = 1 THEN running \cup extra
                                 ELSE running
                   /\ cbret' = (cbret \/ ret = 0)
                   /\ r2s' = IF ret < 0 THEN r2s ELSE R2S(o, status, r)
                   /\ status' = IF ret < 0 THEN status ELSE r.status
                   /\ suberrno' = IF ret >= 0 /\ r.reset THEN "none"
                                  ELSE suberrno
                   /\ pc' = IF ret < 0 \/ r.retval < 0 THEN "done"
                            ELSE "failsafe"
                   /\ fatal' = (ret < 0 \/ r.retval < 0)
       ELSE /\ pc' = "failsafe"
            /\ UNCHANGED <<status, suberrno, r2s, fatal, trace, running,
                           cbret>>
    /\ UNCHANGED <<encvars, extvars, argvars, nacmvars, running0, tmp, candidate,
                   recorded, lastreq, fsvars, sigvars, accepted, opts, retval,
                   exitcode, ss, events, released, log>>

\* if (status != STARTUP_OK): log cbret if it holds text, startup_failsafe
Main_failsafe ==
    /\ pc = "failsafe"
    /\ IF NeedsFailsafe(status)
       THEN \E ok \in BOOLEAN :
               /\ log' = IF cbret THEN log \cup {"cbret"} ELSE log
               /\ trace' = Append(trace,
                     Step("startup_failsafe", "running", FailsafeContent, ok))
               /\ running' = IF ok THEN FailsafeContent ELSE running
               /\ pc' = IF ok THEN "candidate" ELSE "done"
               /\ fatal' = ~ok
       ELSE /\ pc' = "candidate"
            /\ UNCHANGED <<log, fatal, trace, running>>
    /\ UNCHANGED <<encvars, extvars, argvars, nacmvars, running0, tmp, candidate, cbret,
                   recorded, lastreq, fsvars, sigvars, hist, opts, status,
                   suberrno, retval, exitcode, ss, events, released>>

\* a variant that initialises the candidate from the startup datastore
Main_candidate_from_startup ==
    /\ pc = "candidate"
    /\ \E out \in {"ok", "nocopy", "noset"} :
          /\ trace' = trace \o
                <<Step("xmldb_copy", "candidate", StartupContent, out # "nocopy")>> \o
                (IF out = "nocopy" THEN <<>>
                 ELSE <<Step("clicon_startup_status_set", "", {status},
                             out = "ok")>>)
          /\ candidate' = IF out = "nocopy" THEN candidate ELSE <<StartupContent>>
          /\ recorded' = IF out = "ok" THEN status ELSE recorded
          /\ pc' = IF out = "ok" THEN "plugin_start" ELSE "done"
          /\ fatal' = (out # "ok")
    /\ UNCHANGED <<encvars, extvars, argvars, nacmvars, running0, running, tmp, cbret,
                   lastreq, fsvars, sigvars, hist, opts, status, suberrno,
                   retval, exitcode, ss, events, released, log>>

\* xmldb_copy(h, "running", "candidate"); clicon_startup_status_set(h, status)
Main_candidate ==
    /\ pc = "candidate"
    /\ \E out \in {"ok", "nocopy", "noset"} :
          /\ trace' = trace \o
                <<Step("xmldb_copy", "candidate", running, out # "nocopy")>> \o
                (IF out = "nocopy" THEN <<>>
                 ELSE <<Step("clicon_startup_status_set", "", {status},
                             out = "ok")>>)
          /\ candidate' = IF out = "nocopy" THEN candidate ELSE <<running>>
          /\ recorded' = IF out = "ok" THEN status ELSE recorded
          /\ pc' = IF out = "ok" THEN "plugin_start" ELSE "done"
          /\ fatal' = (out # "ok")
    /\ UNCHANGED <<encvars, extvars, argvars, nacmvars, running0, running, tmp, cbret,
                   lastreq, fsvars, sigvars, hist, opts, status, suberrno,
                   retval, exitcode, ss, events, released, log>>

\* plugin_start_useroptions; if (once) goto done
Main_plugin_start ==
    /\ pc = "plugin_start"
    /\ \E ok \in BOOLEAN :
          /\ pc' = IF ok /\ ~once THEN "daemonize" ELSE "done"
          /\ fatal' = ~ok
    /\ UNCHANGED <<encvars, extvars, argvars, nacmvars, dbvars, stvars, lastreq,
                   fsvars, sigvars, hist, opts, status, suberrno,
                   retval, exitcode, ss, events, released, log>>

\* if (foreground == 0) daemon(0, 0), exit(-1) when it fails
Main_daemonize ==
    /\ pc = "daemonize"
    /\ \E foreground \in BOOLEAN, ok \in BOOLEAN :
          /\ pc' = IF foreground \/ ok THEN "pidwrite" ELSE "exit"
          /\ fatal' = ~(foreground \/ ok)
          /\ exitcode' = IF foreground \/ ok THEN exitcode ELSE ExitStatus(-1)
    /\ UNCHANGED <<encvars, extvars, argvars, nacmvars, dbvars, stvars, lastreq,
                   fsvars, sigvars, hist, opts, status, suberrno,
                   retval, ss, events, released, log>>

\* pidfile_write(pidfile)
Main_pidfile_write ==
    /\ pc = "pidwrite"
    /\ \E ok \in BOOLEAN :
          /\ pc' = IF ok THEN "signals" ELSE "done"
          /\ pidfile' = IF ok THEN "own" ELSE pidfile
          /\ log' = IF ok THEN log \cup {"Started"} ELSE log
          /\ fatal' = ~ok
    /\ UNCHANGED <<encvars, extvars, argvars, nacmvars, dbvars, stvars, lastreq,
                   sockfile, daemon, sigvars, hist, opts, status,
                   suberrno, retval, exitcode, ss, events, released>>

\* set_signal(SIGTERM, backend_sig_term), set_signal(SIGINT, backend_sig_term)
Main_set_signal ==
    /\ pc = "signals"
    /\ \E ok \in BOOLEAN :
          /\ pc' = IF ok THEN "socket" ELSE "done"
          /\ handlers' = ok
          /\ fatal' = ~ok
    /\ UNCHANGED <<encvars, extvars, argvars, nacmvars, dbvars, stvars, lastreq,
                   fsvars, clicon_exit, sigcount, hist, opts, status,
                   suberrno, retval, exitcode, ss, events, released, log>>

\* backend_server_socket, clicon_socket_set, stream_timer_setup
Main_server_socket ==
    /\ pc = "socket"
    /\ \E out \in {"ok", "nosocket", "notimer"} :
          /\ pc' = IF out = "ok" THEN "loop" ELSE "done"
          /\ ss' = (out # "nosocket")
          /\ accepted' = (out # "nosocket")
          /\ trace' = Append(trace, Step("backend_server_socket", "", {},
                                         out # "nosocket"))
          /\ sockfile' = IF out # "nosocket" /\ sockfamily = "UNIX"
                         THEN "own" ELSE sockfile
          /\ fatal' = (out # "ok")
    /\ UNCHANGED <<encvars, extvars, argvars, nacmvars, dbvars, cbret, recorded,
                   lastreq, pidfile, daemon, sigvars, r2s, opts, status,
                   suberrno, retval, exitcode, events, released, log>>

\* event_loop(): a client request is handled: NACM decides, a permitted
\* request is executed, a denied one is answered with access-denied; a
\* failing callback ends the loop
EventLoop_event ==
    /\ pc = "loop"
    /\ ~clicon_exit
    /\ events < MaxEvents
    /\ \E req \in Requests, ok \in BOOLEAN :
          LET d == nacm_access(nacm_xtree, req) IN
          /\ pc' = IF ok THEN "loop" ELSE "done"
          /\ events' = IF ok THEN events + 1 ELSE events
          /\ fatal' = ~ok
          /\ lastreq' = IF ok
                THEN [req |-> req, nacm |-> nacm_xtree, decision |-> d,
                      reply |-> IF d.permit THEN NULL ELSE nacm_denied(req, d),
                      running |-> running, candidate |-> candidate]
                ELSE lastreq
          /\ running' = IF ok THEN from_client(req, d, running) ELSE running
          /\ candidate' = IF ok THEN <<from_client(req, d, candidate[1])>>
                          ELSE candidate
    /\ UNCHANGED <<encvars, extvars, argvars, nacmvars, running0, tmp, stvars, fsvars,
                   sigvars, hist, opts, status, suberrno, retval, exitcode, ss,
                   released, log>>

\* event_loop() returns 0 once the exit flag is set; retval = 0
EventLoop_exit ==
    /\ pc = "loop"
    /\ clicon_exit
    /\ retval' = 0
    /\ pc' = "done"
    /\ UNCHANGED <<encvars, extvars, argvars, nacmvars, dbvars, stvars, lastreq,
                   fsvars, sigvars, hist, opts, status, suberrno,
                   exitcode, ss, events, released, log, fatal>>

\* SIGTERM or SIGINT is delivered to the process
Signal ==
    /\ handlers
    /\ pc # "exit"
    /\ sigcount < MaxSignals
    /\ LET h == backend_sig_term(sigcount) IN
          /\ sigcount' = h.i
          /\ clicon_exit' = (clicon_exit \/ h.exit)
          /\ log' = IF h.notice THEN log \cup {"Signal"} ELSE log
    /\ UNCHANGED <<encvars, extvars, argvars, nacmvars, dbvars, stvars, lastreq,
                   fsvars, handlers, hist, opts, status, suberrno,
                   retval, exitcode, ss, events, released, fatal, pc>>

\* done: log "Terminated", backend_terminate(h), return retval
Main_done ==
    /\ pc = "done"
    /\ LET t == backend_terminate(pidfile, sockfile) IN
          /\ pidfile' = t.pidfile
          /\ sockfile' = t.sockfile
          /\ ss' = t.ss
          /\ released' = t.released
    /\ log' = log \cup {"Terminated"}
    /\ exitcode' = ExitStatus(retval)
    /\ pc' = "exit"
    /\ UNCHANGED <<encvars, extvars, argvars, nacmvars, dbvars, stvars, lastreq,
                   daemon, sigvars, hist, opts, status, suberrno,
                   retval, events, fatal>>

MainStep ==
    \/ Main_getopt1
    \/ Main_options
    \/ Main_nacm
    \/ Main_getopt2
    \/ Main_zap
    \/ Main_already_running
    \/ Main_unlink_stale
    \/ Main_group
    \/ Main_setup
    \/ Main_startup_init_none
    \/ Main_startup_running
    \/ Main_startup_startup
    \/ Main_extraxml
    \/ Main_failsafe
    \/ Main_candidate
    \/ Main_plugin_start
    \/ Main_daemonize
    \/ Main_pidfile_write
    \/ Main_set_signal
    \/ Main_server_socket
    \/ EventLoop_event
    \/ EventLoop_exit
    \/ Main_done

-----------------------------------------------------------------------------
(* Library functions applied on their own *)

\* return values a validation function may hand to ret2status
RetValues == -2 .. 2

\* ret2status(ret, &status) under each clicon_suberrno and each status
Apply_ret2status ==
    /\ lib_fn = ""
    /\ \E ret \in RetValues, e \in {"none", "XMLPARSE_ERRNO", "other"},
          st \in {"STARTUP_ERR", "STARTUP_INVALID", "STARTUP_OK"} :
          /\ lib_fn' = "ret2status"
          /\ lib_in' = [ret |-> ret, e |-> e, status |-> st]
          /\ lib_out' = ret2status(ret, e, st)
    /\ UNCHANGED <<encvars, mainvars, srvvars>>

\* an rpc-error with the children of full whose positions are in keep
ErrorOf(full, keep) ==
    [name |-> "rpc-error", body |-> <<>>,
     kids |-> SelectSeq(full, LAMBDA k : k.name \in keep)]

\* rpc-errors netconf_err2cb is given: any part may be absent, error-info
\* has one child or two
RpcErrors ==
    LET leaf(n, b) == [name |-> n, body |-> <<Chr(b)>>, kids |-> <<>>]
        info(ks)   == [name |-> "error-info", body |-> <<>>, kids |-> ks]
        parts(i)   == <<leaf("error-type", "application"),
                        leaf("error-tag", "access-denied"),
                        leaf("error-severity", "error"), i,
                        leaf("error-message", "default deny")>>
        infos      == {info(<<leaf("bad-element", "x")>>),
                       info(<<xml_new("session-id"),
                              leaf("bad-element", "y")>>)}
    IN  {ErrorOf(parts(i), keep) :
            i \in infos,
            keep \in SUBSET {"error-type", "error-tag", "error-severity",
                             "error-info", "error-message"}}

\* a rendering in the order of the children of the rpc-error
netconf_err2cb_doc_order(xerr) ==
    LET part(x) == IF x.name = "error-info"
                   THEN clicon_xml2cbuf(x.kids[1])
                   ELSE IF x.name \in {"error-type", "error-tag",
                                       "error-message"}
                   THEN x.body \o <<Chr(" ")>>
                   ELSE <<>>
        cat[i \in 0..Len(xerr.kids)] ==
            IF i = 0 THEN <<>> ELSE cat[i - 1] \o part(xerr.kids[i])
    IN  [retval |-> 0, cb |-> cat[Len(xerr.kids)]]

\* netconf_err2cb(xerr, &cberr): cprintf(cb, "%s ", xml_body(x)) for
\* error-type, error-tag and error-message, then the first child of error-info
netconf_err2cb(xerr) ==
    LET part(n) == LET x == xml_find(xerr, n)
                   IN  IF x = NULL THEN <<>> ELSE x[1].body \o <<Chr(" ")>>
        info    == xml_find(xerr, "error-info")
    IN  [retval |-> 0,
         cb |-> part("error-type") \o part("error-tag")
                \o part("error-message")
                \o (IF info = NULL THEN <<>>
                    ELSE clicon_xml2cbuf(info[1].kids[1]))]

Apply_netconf_err2cb ==
    /\ lib_fn = ""
    /\ \E xerr \in RpcErrors :
          /\ lib_fn' = "netconf_err2cb"
          /\ lib_in' = xerr
          /\ lib_out' = netconf_err2cb(xerr)
    /\ UNCHANGED <<encvars, mainvars, srvvars>>

\* the number of tree builder calls made on one output root
MaxCalls == 2

\* the tree-form error builders
XmlBuilders ==
    {"netconf_invalid_value_xml", "netconf_missing_element_xml",
     "netconf_bad_element_xml", "netconf_unknown_element_xml",
     "netconf_unknown_namespace_xml", "netconf_access_denied_xml",
     "netconf_data_missing_xml", "netconf_operation_failed_xml",
     "netconf_malformed_message_xml", "netconf_data_not_unique_xml",
     "netconf_minmax_elements_xml"}

\* one call of the tree builder f on the output root xr
XmlBuild(f, xr) ==
    LET type    == <<Chr("application")>>
        message == <<<<Chr("a"), Chr("<")>>>>
        element == <<Chr("x")>>
        x       == [name |-> "entry", body |-> <<>>,
                    kids |-> <<Leaf("k1", "1"), Leaf("k2", "2")>>]
    IN  CASE f = "netconf_invalid_value_xml" ->
                netconf_invalid_value_xml(xr, type, message)
          [] f = "netconf_missing_element_xml" ->
                netconf_missing_element_xml(xr, type, element, message)
          [] f = "netconf_bad_element_xml" ->
                netconf_bad_element_xml(xr, type, element, NULL)
          [] f = "netconf_unknown_element_xml" ->
                netconf_unknown_element_xml(xr, type, element, message)
          [] f = "netconf_unknown_namespace_xml" ->
                netconf_unknown_namespace_xml(xr, type, element, message)
          [] f = "netconf_access_denied_xml" ->
                netconf_access_denied_xml(xr, type, message)
          [] f = "netconf_data_missing_xml" ->
                netconf_data_missing_xml(xr, <<<<Chr("c")>>>>, message)
          [] f = "netconf_operation_failed_xml" ->
                netconf_operation_failed_xml(xr, type, message)
          [] f = "netconf_malformed_message_xml" ->
                netconf_malformed_message_xml(xr, NULL)
          [] f = "netconf_data_not_unique_xml" ->
                netconf_data_not_unique_xml(xr, x, <<"k1", "k2">>)
          [] OTHER ->
                netconf_minmax_elements_xml(xr, x, 1)

\* a caller collects errors: one more tree builder call on the same root
Build_xml ==
    /\ lib_fn \in {"", "xml"}
    /\ \E f \in XmlBuilders,
          xr0 \in IF lib_fn = "" THEN Roots ELSE {lib_in.root} :
          LET calls == IF lib_fn = "" THEN <<>> ELSE lib_in.calls
              xr    == IF lib_fn = "" THEN xr0 ELSE lib_out.xret
              r     == XmlBuild(f, xr)
          IN  /\ Len(calls) < MaxCalls
              /\ lib_fn = "xml" => lib_out.retval = 0
              /\ lib_fn' = "xml"
              /\ lib_in' = [root |-> xr0, calls |-> Append(calls, f)]
              /\ lib_out' = r
    /\ UNCHANGED <<encvars, mainvars, srvvars>>

-----------------------------------------------------------------------------
(* SNMP registration (snmp_register.c).  A YANG statement is a record     *)
(* [kw, arg, oid, access, asn1, keys, kids]: oid and access are the       *)
(* smiv2 extensions (NULL when absent), asn1 tells whether type_yang2asn1 *)
(* succeeds.  An OID is a sequence of components.  The agent is the       *)
(* sequence of registrations made, and a set of OIDs it refuses.          *)

Ystmt(kw, arg, oid, access, asn1, keys, kids) ==
    [kw |-> kw, arg |-> arg, oid |-> oid, access |-> access, asn1 |-> asn1,
     keys |-> keys, kids |-> kids]

\* yang_find(yn, Y_LEAF, name), also what xml_spec gives for a column
yang_find(yn, name) ==
    LET idx == {i \in DOMAIN yn.kids :
                   yn.kids[i].kw = "leaf" /\ yn.kids[i].arg = name}
    IN  IF idx = {} THEN NULL ELSE <<yn.kids[CHOOSE i \in idx : TRUE]>>

\* snmp_parse_oid: every component is a number (a negative component
\* stands for text that is not one)
snmp_parse_oid(o) == \A i \in DOMAIN o : o[i] >= 0

\* snmp_body2oid(xi, cv): the key value of a row as an OID component
snmp_body2oid(body) ==
    IF body >= 0 THEN [retval |-> 0, cv |-> body]
    ELSE [retval |-> -1, cv |-> body]

Registered(kind, name, o) == [kind |-> kind, name |-> name, oid |-> o]

\* a leaf registration that also registers leaves without max-access
mibyang_leaf_register_any(ys, cvk, refused) ==
    LET o == ys.oid[1] \o cvk
    IN  IF ys.oid = NULL THEN [retval |-> 0, regs |-> <<>>]
        ELSE IF ~snmp_parse_oid(o) THEN [retval |-> 0, regs |-> <<>>]
        ELSE IF ~ys.asn1 THEN [retval |-> -1, regs |-> <<>>]
        ELSE IF o \in refused THEN [retval |-> -1, regs |-> <<>>]
        ELSE [retval |-> 0, regs |-> <<Registered("instance", ys.arg, o)>>]

\* mibyang_leaf_register(h, ys, cvk): no smiv2:oid, an OID that does not
\* parse or no max-access end it with 0 and nothing registered
mibyang_leaf_register(ys, cvk, refused) ==
    LET o == ys.oid[1] \o cvk
    IN  IF ys.oid = NULL THEN [retval |-> 0, regs |-> <<>>]
        ELSE IF ~snmp_parse_oid(o) THEN [retval |-> 0, regs |-> <<>>]
        ELSE IF ~ys.asn1 THEN [retval |-> -1, regs |-> <<>>]
        ELSE IF ys.access = NULL THEN [retval |-> 0, regs |-> <<>>]
        ELSE IF o \in refused THEN [retval |-> -1, regs |-> <<>>]
        ELSE [retval |-> 0, regs |-> <<Registered("instance", ys.arg, o)>>]

\* while ((cvi = cvec_each(cvk, cvi)) != NULL): "done" when a key has no
\* leaf, "ok" (the skip) when a key leaf has no ASN.1 type
RECURSIVE TableKeys(_, _)
TableKeys(ylist, keys) ==
    IF keys = <<>> THEN "all"
    ELSE LET yleaf == yang_find(ylist, Head(keys))
         IN  IF yleaf = NULL THEN "done"
             ELSE IF ~yleaf[1].asn1 THEN "ok"
             ELSE TableKeys(ylist, Tail(keys))

\* mibyang_table_register(h, ys, ylist): the table handler of container ys
mibyang_table_register(ys, ylist, refused) ==
    IF ys.oid = NULL THEN [retval |-> 0, regs |-> <<>>]
    ELSE IF ~snmp_parse_oid(ys.oid[1]) THEN [retval |-> -1, regs |-> <<>>]
    ELSE IF ylist.keys = <<>> THEN [retval |-> -1, regs |-> <<>>]
    ELSE LET k == TableKeys(ylist, ylist.keys)
         IN  IF k = "done" THEN [retval |-> -1, regs |-> <<>>]
             ELSE IF k = "ok" THEN [retval |-> 0, regs |-> <<>>]
             ELSE IF ys.oid[1] \in refused
             THEN [retval |-> -1, regs |-> <<>>]
             ELSE [retval |-> 0,
                   regs |-> <<Registered("table", ys.arg, ys.oid[1])>>]

\* xml_find_type(xrow, NULL, name, CX_ELMNT): the first column of that name
RowFind(xrow, name) ==
    LET idx == {i \in DOMAIN xrow : xrow[i].name = name}
    IN  IF idx = {} THEN NULL
        ELSE <<xrow[CHOOSE i \in idx : \A j \in idx : i <= j]>>

\* for (i=0; i<cvec_len(cvk0); i++): the key values of a row in key order;
\* "skip" at the first key the row lacks, "done" when a value does not convert
RECURSIVE RowKeys(_, _, _)
RowKeys(xrow, keys, cvk) ==
    IF keys = <<>> THEN [end |-> "all", cvk |-> cvk]
    ELSE LET xi == RowFind(xrow, Head(keys))
         IN  IF xi = NULL THEN [end |-> "skip", cvk |-> cvk]
             ELSE LET c == snmp_body2oid(xi[1].body)
                  IN  IF c.retval < 0 THEN [end |-> "done", cvk |-> cvk]
                      ELSE RowKeys(xrow, Tail(keys), Append(cvk, c.cv))

\* while ((xcol = xml_child_each(xrow, xcol, CX_ELMNT)) != NULL)
RECURSIVE RowColumns(_, _, _, _)
RowColumns(ylist, cols, cvk, refused) ==
    IF cols = <<>> THEN [retval |-> 0, regs |-> <<>>]
    ELSE LET y == yang_find(ylist, Head(cols).name)
         IN  IF y = NULL THEN RowColumns(ylist, Tail(cols), cvk, refused)
             ELSE LET r == mibyang_leaf_register(y[1], cvk, refused)
                  IN  IF r.retval < 0 THEN r
                      ELSE LET t == RowColumns(ylist, Tail(cols), cvk,
                                               refused)
                           IN  [retval |-> t.retval,
                                regs |-> r.regs \o t.regs]

\* while ((xrow = xml_child_each(xtable, xrow, CX_ELMNT)) != NULL)
RECURSIVE TableRows(_, _, _)
TableRows(ylist, rows, refused) ==
    IF rows = <<>> THEN [retval |-> 0, regs |-> <<>>]
    ELSE LET k == RowKeys(Head(rows), ylist.keys, <<>>)
         IN  IF k.end = "done" THEN [retval |-> -1, regs |-> <<>>]
             ELSE IF k.end = "skip" THEN TableRows(ylist, Tail(rows), refused)
             ELSE LET r == RowColumns(ylist, Head(rows), k.cvk, refused)
                  IN  IF r.retval < 0 THEN r
                      ELSE LET t == TableRows(ylist, Tail(rows), refused)
                           IN  [retval |-> t.retval,
                                regs |-> r.regs \o t.regs]

\* mibyang_table_traverse_static(h, ys, ylist): the rows the datastore holds
\* under container ys
mibyang_table_traverse_static(ys, ylist, data, refused) ==
    IF ~data.ok THEN [retval |-> -1, regs |-> <<>>]
    ELSE IF data.table = NULL THEN [retval |-> 0, regs |-> <<>>]
    ELSE IF ylist.keys = <<>> THEN [retval |-> -1, regs |-> <<>>]
    ELSE TableRows(ylist, data.table[1], refused)

\* mibyang_traverse(h, yn): a leaf is registered as a scalar; a list in a
\* container gets its table handler and then its rows, and is not descended
\* into; anything else is descended into.  yp is yang_parent_get(yn).
RECURSIVE mibyang_traverse(_, _, _, _)
RECURSIVE TraverseKids(_, _, _, _)
mibyang_traverse(yn, yp, data, refused) ==
    IF yn.kw = "leaf"
    THEN mibyang_leaf_register(yn, <<>>, refused)
    ELSE IF yn.kw = "list" /\ yp.kw = "container"
    THEN LET t == mibyang_table_register(yp, yn, refused)
         IN  IF t.retval < 0 THEN t
             ELSE LET r == mibyang_table_traverse_static(yp, yn, data, refused)
                  IN  [retval |-> r.retval, regs |-> t.regs \o r.regs]
    ELSE TraverseKids(yn, yn.kids, data, refused)

\* while ((ys = yn_each(yn, ys)) != NULL)
TraverseKids(yn, kids, data, refused) ==
    IF kids = <<>> THEN [retval |-> 0, regs |-> <<>>]
    ELSE LET r == mibyang_traverse(Head(kids), yn, data, refused)
         IN  IF r.retval < 0 THEN r
             ELSE LET t == TraverseKids(yn, Tail(kids), data, refused)
                  IN  [retval |-> t.retval, regs |-> r.regs \o t.regs]

\* The MIB modules traversed: a scalar s and a container c holding a list l
\* with keys k1 k2 and a column v
Column(name, body) == [name |-> name, body |-> body]

MibModule(coid, kasn1, void, vaccess) ==
    LET k1 == Ystmt("leaf", "k1", <<<<1, 1>>>>, <<"na">>, TRUE, <<>>, <<>>)
        k2 == Ystmt("leaf", "k2", <<<<1, 2>>>>, <<"na">>, kasn1, <<>>, <<>>)
        v  == Ystmt("leaf", "v", void, vaccess, TRUE, <<>>, <<>>)
        l  == Ystmt("list", "l", NULL, NULL, TRUE, <<"k1", "k2">>,
                    <<k1, k2, v>>)
        c  == Ystmt("container", "c", coid, NULL, TRUE, <<>>, <<l>>)
        sc == Ystmt("leaf", "s", <<<<9>>>>, <<"ro">>, TRUE, <<>>, <<>>)
    IN  Ystmt("module", "m", NULL, NULL, TRUE, <<>>, <<sc, c>>)

MibModules ==
    {MibModule(coid, kasn1, void, vaccess) :
        coid \in {NULL, <<<<1>>>>}, kasn1 \in BOOLEAN,
        void \in {NULL, <<<<1, 3>>>>, <<<<1, -1>>>>},
        vaccess \in {NULL, <<"rw">>}}

\* rows of the table: complete (keys out of order), lacking key k2, holding
\* a column without schema node, holding a key value that is no OID component
MibRows ==
    {<<Column("k2", 2), Column("k1", 1), Column("v", 5)>>,
     <<Column("k1", 1), Column("v", 5)>>,
     <<Column("k1", 3), Column("k2", 4), Column("x", 0), Column("v", 5)>>,
     <<Column("k1", 7), Column("k2", -1), Column("v", 5)>>}

MaxRows == 2

MibData ==
    {[ok |-> FALSE, table |-> NULL], [ok |-> TRUE, table |-> NULL]} \cup
    {[ok |-> TRUE, table |-> <<rows>>] :
        rows \in UNION {[1 .. n -> MibRows] : n \in 0 .. MaxRows}}

\* sets of OIDs whose registration the agent refuses
MibRefused == {{}, {<<1>>}, {<<1, 3, 1, 2>>}, {<<1, 2, 3, 4>>}}

\* mibyang_table_traverse_static on the container and list of a module
Apply_mibyang_table_traverse_static ==
    /\ lib_fn = ""
    /\ \E ym \in MibModules, data \in MibData, refused \in MibRefused :
          LET ys    == ym.kids[2]
              ylist == ys.kids[1]
          IN  /\ lib_fn' = "mibyang_table_traverse_static"
              /\ lib_in' = [ys |-> ys, ylist |-> ylist, data |-> data,
                            refused |-> refused]
              /\ lib_out' = mibyang_table_traverse_static(ys, ylist, data,
                                                          refused)
    /\ UNCHANGED <<encvars, mainvars, srvvars>>

Apply_mibyang_traverse ==
    /\ lib_fn = ""
    /\ \E ym \in MibModules, data \in MibData, refused \in MibRefused :
          /\ lib_fn' = "mibyang_traverse"
          /\ lib_in' = [ym |-> ym, data |-> data, refused |-> refused]
          /\ lib_out' = mibyang_traverse(ym, ym, data, refused)
    /\ UNCHANGED <<encvars, mainvars, srvvars>>

-----------------------------------------------------------------------------
(* The dispatcher and session manager, the lock manager, the commit engine *)
(* and the confirmed-commit state machine.  A datastore content is a set   *)
(* of items.                                                               *)

\* the session ids a run assigns, in increasing order and never reused
SessionIds == 1 .. 2

Datastores == {"running", "candidate"}

Items == {"a"}

\* the registered plugins, in registration order
Plugins == <<"p1", "p2", "p3">>

PersistIds == {NULL, <<"p">>, <<"q">>}

\* backend_commit.h
COMMIT_NOT_CONFIRMED ==
    "Commit was not confirmed; automatic rollback complete."

\* a session id as decimal text
ItoA(n) ==
    LET digit == <<"1", "2", "3", "4", "5", "6", "7", "8", "9">>
        d(k)  == IF k = 0 THEN "0" ELSE digit[k]
    IN  IF n < 10 THEN <<Chr(d(n))>>
        ELSE <<Chr(d(n \div 10)), Chr(d(n % 10))>>

OkReply == <<Open("rpc-reply"), Empty("ok"), Close("rpc-reply")>>

\* a reply: the session answered, the rpc and its target, the text sent
Sent(s, rpc, target, text) ==
    [session |-> s, rpc |-> rpc, target |-> target, text |-> text]

NoReply == Sent(0, "", "", <<>>)

\* the reply to a lock request on a datastore that holder has locked
LockDenied(holder) ==
    netconf_lock_denied(<<>>, El("session-id", ItoA(holder)),
                        <<<<Chr("Lock failed, lock is already held")>>>>).cb

\* the reply to a request on a datastore another session has locked
InUse ==
    netconf_in_use(<<>>, <<Chr("protocol")>>,
                   <<<<Chr("Operation failed, lock is already held")>>>>).cb

\* the reply that carries the cause of a failure as its message
OperationFailed(cause) ==
    netconf_operation_failed(<<>>, <<Chr("application")>>, <<cause>>).cb

\* a release that leaves the locks of an ended session in place
Release_none(l, s) == l

\* the locks after session s has ended: every lock it held is released
Release(l, s) == [d \in Datastores |-> IF l[d] = s THEN 0 ELSE l[d]]

\* the confirmed-commit context when no confirmed commit is in progress
CcInactive ==
    [state |-> "INACTIVE", session |-> 0, persist |-> NULL, image |-> NULL,
     cause |-> "", origin |-> NULL]

\* INACTIVE -> EPHEMERAL or PERSISTENT: the timer is started, the rollback
\* image (running before the commit), the originating session and the
\* persist-id are recorded; origin is history, the content of running
\* before the confirmed commit
Started(s, pid, run) ==
    [state |-> IF pid = NULL THEN "EPHEMERAL" ELSE "PERSISTENT",
     session |-> s, persist |-> pid, image |-> <<run>>, cause |-> "",
     origin |-> <<run>>]

\* an extension that records a new rollback image
Extended_overwrite(c, run) == [c EXCEPT !.image = <<run>>]

\* an extension commit confirmed: the timer is reset, the image is preserved
Extended(c, run) == c

Pending == {"EPHEMERAL", "PERSISTENT"}

\* session s, presenting persist-id pid, may confirm, extend or cancel the
\* confirmed commit in progress
Owner(s, pid) ==
    \/ cc.state = "EPHEMERAL" /\ s = cc.session
    \/ cc.state = "PERSISTENT" /\ pid = cc.persist

\* the rollback image is promoted back to running, or cannot be applied
Rollback(cause, applied) ==
    /\ db_running' = IF applied THEN cc.image[1] ELSE db_running
    /\ rb' = <<[cause |-> cause, snapshot |-> cc.origin[1],
                applied |-> applied,
                message |-> IF applied THEN COMMIT_NOT_CONFIRMED
                            ELSE "rollback-failed"]>>
    /\ cc' = CcInactive

\* session t ends (close-session, kill-session, disconnect, crash): it is
\* destroyed, its locks are released, and an ephemeral confirmed commit it
\* originated is rolled back
SessionEnd(t) ==
    /\ sessions' = sessions \ {t}
    /\ locks' = Release(locks, t)
    /\ IF cc.state = "EPHEMERAL" /\ cc.session = t
       THEN \E applied \in BOOLEAN : Rollback("disconnect", applied)
       ELSE rb' = NULL /\ UNCHANGED <<cc, db_running>>

\* a client connects and is given the next session id
Srv_connect ==
    /\ next_id \in SessionIds
    /\ cc.state # "ROLLBACK"
    /\ sessions' = sessions \cup {next_id}
    /\ next_id' = next_id + 1
    /\ rb' = NULL
    /\ UNCHANGED <<encvars, mainvars, libvars, locks, cc, db_running,
                   db_candidate, reply>>

\* <lock><target>d</target></lock>
Srv_lock ==
    /\ cc.state # "ROLLBACK"
    /\ \E s \in sessions, d \in Datastores :
          IF locks[d] = 0
          THEN /\ locks' = [locks EXCEPT ![d] = s]
               /\ reply' = Sent(s, "lock", d, OkReply)
          ELSE /\ reply' = Sent(s, "lock", d, LockDenied(locks[d]))
               /\ UNCHANGED locks
    /\ rb' = NULL
    /\ UNCHANGED <<encvars, mainvars, libvars, sessions, next_id, cc,
                   db_running, db_candidate>>

\* <unlock><target>d</target></unlock>
Srv_unlock ==
    /\ cc.state # "ROLLBACK"
    /\ \E s \in sessions, d \in Datastores :
          IF locks[d] = s
          THEN /\ locks' = [locks EXCEPT ![d] = 0]
               /\ reply' = Sent(s, "unlock", d, OkReply)
          ELSE /\ reply' = Sent(s, "unlock", d,
                               IF locks[d] = 0
                               THEN OperationFailed(<<Chr("lock is not held")>>)
                               ELSE LockDenied(locks[d]))
               /\ UNCHANGED locks
    /\ rb' = NULL
    /\ UNCHANGED <<encvars, mainvars, libvars, sessions, next_id, cc,
                   db_running, db_candidate>>

\* close-session, or the connection of a session is lost
Srv_close ==
    /\ cc.state # "ROLLBACK"
    /\ \E t \in sessions :
          /\ SessionEnd(t)
          /\ reply' = Sent(t, "close-session", "", OkReply)
    /\ UNCHANGED <<encvars, mainvars, libvars, next_id, db_candidate>>

\* <kill-session><session-id>t</session-id></kill-session>
Srv_kill ==
    /\ cc.state # "ROLLBACK"
    /\ \E s \in sessions : \E t \in sessions \ {s} :
          /\ SessionEnd(t)
          /\ reply' = Sent(s, "kill-session", "", OkReply)
    /\ UNCHANGED <<encvars, mainvars, libvars, next_id, db_candidate>>

\* edit-config on candidate: an item is added or removed
Srv_edit ==
    /\ cc.state # "ROLLBACK"
    /\ \E s \in sessions, item \in Items :
          IF locks["candidate"] \in {0, s}
          THEN /\ db_candidate' = IF item \in db_candidate
                                  THEN db_candidate \ {item}
                                  ELSE db_candidate \cup {item}
               /\ reply' = Sent(s, "edit-config", "candidate", OkReply)
          ELSE /\ reply' = Sent(s, "edit-config", "candidate", InUse)
               /\ UNCHANGED db_candidate
    /\ rb' = NULL
    /\ UNCHANGED <<encvars, mainvars, libvars, sessions, next_id, locks, cc,
                   db_running>>

\* discard-changes: candidate is reset from running
Srv_discard ==
    /\ cc.state # "ROLLBACK"
    /\ \E s \in sessions :
          IF locks["candidate"] \in {0, s}
          THEN /\ db_candidate' = db_running
               /\ reply' = Sent(s, "discard-changes", "candidate", OkReply)
          ELSE /\ reply' = Sent(s, "discard-changes", "candidate", InUse)
               /\ UNCHANGED db_candidate
    /\ rb' = NULL
    /\ UNCHANGED <<encvars, mainvars, libvars, sessions, next_id, locks, cc,
                   db_running>>

\* one step of a commit transaction
Call(phase, plugin, ok) == [phase |-> phase, plugin |-> plugin, ok |-> ok]

\* the callbacks of one phase, in registration order, up to the first that
\* does not return ok (failat, 0 when all return ok)
PhaseCalls(phase, failat) ==
    [i \in 1 .. (IF failat = 0 THEN Len(Plugins) ELSE failat) |->
        Call(phase, Plugins[i], i # failat)]

\* what may go wrong in a commit: nothing, the validation, one pre-commit
\* callback, one commit callback; a commit-done callback may fail as well
CommitOutcomes ==
    {[stage |-> st, at |-> at, done |-> dn] :
        st \in {"none", "validate", "pre-commit", "commit"},
        at \in 0 .. Len(Plugins), dn \in 0 .. 1} \ 
    {o \in [stage : {"none", "validate", "pre-commit", "commit"},
            at : 0 .. Len(Plugins), done : 0 .. 1] :
        \/ (o.stage \in {"none", "validate"}) # (o.at = 0)
        \/ o.stage # "none" /\ o.done # 0}

\* abort callbacks in the order the commit callbacks were invoked
AbortCalls_forward(oks) ==
    [i \in DOMAIN oks |-> Call("abort", oks[i].plugin, TRUE)]

\* the abort path: the abort callback of every commit callback that returned
\* ok, in reverse order
AbortCalls(oks) ==
    [i \in DOMAIN oks |-> Call("abort", oks[Len(oks) + 1 - i].plugin, TRUE)]

\* the commit transition (steps 1 to 9) of candidate cand onto running run
CommitEngine(run, cand, o) ==
    LET valid  == o.stage # "validate"
        pre    == IF valid
                  THEN PhaseCalls("pre-commit",
                                  IF o.stage = "pre-commit" THEN o.at ELSE 0)
                  ELSE <<>>
        com    == IF valid /\ o.stage # "pre-commit"
                  THEN PhaseCalls("commit",
                                  IF o.stage = "commit" THEN o.at ELSE 0)
                  ELSE <<>>
        ok     == o.stage = "none"
        done   == [i \in DOMAIN Plugins |->
                      Call("commit-done", Plugins[i], i # o.done)]
        tail   == IF ok
                  THEN <<Call("promote", "", TRUE)>> \o done \o
                       <<Call("notify", "", TRUE), Call("handover", "", TRUE)>>
                  ELSE AbortCalls(SelectSeq(com, LAMBDA c : c.ok)) \o
                       <<Call("restore", "", TRUE)>>
        cause  == <<Chr(o.stage),
                    Chr(IF o.at = 0 THEN "" ELSE Plugins[o.at])>>
    IN  [ok      |-> ok,
         image   |-> run,
         calls   |-> <<Call("snapshot", "", TRUE), Call("validate", "", valid)>>
                     \o (IF valid THEN <<Call("diff", "", TRUE)>> ELSE <<>>)
                     \o pre \o com \o tail,
         running |-> IF ok THEN cand ELSE run,
         candidate |-> cand,
         cause   |-> IF ok THEN NULL ELSE <<cause>>,
         text    |-> IF ok THEN OkReply ELSE OperationFailed(cause)]

\* the commit transition on its own, for every content of running and
\* candidate and everything that may go wrong
Apply_CommitEngine ==
    /\ lib_fn = ""
    /\ \E run \in SUBSET {"a", "b"}, cand \in SUBSET {"a", "b"},
          o \in CommitOutcomes :
          /\ lib_fn' = "commit"
          /\ lib_in' = [running |-> run, candidate |-> cand, o |-> o]
          /\ lib_out' = CommitEngine(run, cand, o)
    /\ UNCHANGED <<encvars, mainvars, srvvars>>

\* the commit outcomes the dispatcher is run with: success, and a failing
\* commit callback
SrvOutcomes ==
    {[stage |-> "none", at |-> 0, done |-> 0],
     [stage |-> "commit", at |-> 2, done |-> 0]}

\* <commit/>, <commit><confirmed/>[<persist>id</persist>]</commit> and
\* <commit><persist-id>id</persist-id></commit>
Srv_commit ==
    /\ cc.state # "ROLLBACK"
    /\ \E s \in sessions, confirmed \in BOOLEAN, pid \in PersistIds,
          o \in SrvOutcomes :
          IF cc.state \in Pending /\ ~Owner(s, pid)
          THEN /\ reply' = Sent(s, "commit", "",
                                OperationFailed(<<Chr("confirmed commit"),
                                                  Chr("in progress")>>))
               /\ UNCHANGED <<cc, db_running, db_candidate>>
          ELSE LET r == CommitEngine(db_running, db_candidate, o)
               IN  /\ db_running' = r.running
                   /\ db_candidate' = r.candidate
                   /\ reply' = Sent(s, "commit", "", r.text)
                   /\ cc' = IF ~r.ok THEN cc
                            ELSE IF ~confirmed THEN CcInactive
                            ELSE IF cc.state \in Pending
                            THEN Extended(cc, r.image)
                            ELSE Started(s, pid, r.image)
    /\ rb' = NULL
    /\ UNCHANGED <<encvars, mainvars, libvars, sessions, next_id, locks>>

\* the confirm-timeout timer expires
Srv_timeout ==
    /\ cc.state \in Pending
    /\ cc' = [cc EXCEPT !.state = "ROLLBACK", !.cause = "timeout"]
    /\ rb' = NULL
    /\ UNCHANGED <<encvars, mainvars, libvars, sessions, next_id, locks,
                   db_running, db_candidate, reply>>

\* <cancel-commit>[<persist-id>id</persist-id>]</cancel-commit>
Srv_cancel_commit ==
    /\ cc.state # "ROLLBACK"
    /\ \E s \in sessions, pid \in PersistIds :
          IF cc.state \in Pending /\ Owner(s, pid)
          THEN /\ cc' = [cc EXCEPT !.state = "ROLLBACK", !.cause = "cancel"]
               /\ reply' = Sent(s, "cancel-commit", "", OkReply)
          ELSE /\ reply' = Sent(s, "cancel-commit", "",
                                OperationFailed(<<Chr("no confirmed commit")>>))
               /\ UNCHANGED cc
    /\ rb' = NULL
    /\ UNCHANGED <<encvars, mainvars, libvars, sessions, next_id, locks,
                   db_running, db_candidate>>

\* ROLLBACK: the rollback image is promoted back to running
Srv_rollback ==
    /\ cc.state = "ROLLBACK"
    /\ \E applied \in BOOLEAN : Rollback(cc.cause, applied)
    /\ UNCHANGED <<encvars, mainvars, libvars, sessions, next_id, locks,
                   db_candidate, reply>>

-----------------------------------------------------------------------------
(* Specifications *)

\* the encoder's variables while main() runs
EncIdle ==
    /\ cb0 = <<>>
    /\ cb = <<>>
    /\ xret0 = NULL
    /\ xret = NULL
    /\ last = NoCall

\* the state after construction: argv, the file system, main()'s locals
MainStart ==
    /\ pc = "start"
    /\ zap \in BOOLEAN
    /\ once \in BOOLEAN
    /\ startup_mode \in {"init", "none", "running", "startup"}
    /\ sockfamily \in {"UNIX", "IPv4"}
    /\ opts = FALSE
    /\ pidfile \in {"none", "stale", "other"}
    /\ daemon = (pidfile = "other")
    /\ sockfile \in IF sockfamily # "UNIX" THEN {"none"}
                    ELSE IF daemon THEN {"other"} ELSE {"none", "other"}
    /\ status = "STARTUP_ERR"
    /\ suberrno = "none"
    /\ retval = -1
    /\ exitcode = 0
    /\ ss = FALSE
    /\ handlers = FALSE
    /\ clicon_exit = FALSE
    /\ sigcount = 0
    /\ events = 0
    /\ released = FALSE
    /\ log = {}
    /\ r2s = [called |-> FALSE, ret |-> 1, suberrno |-> "none",
              before |-> "STARTUP_ERR", after |-> "STARTUP_ERR",
              retval |-> 0, reset |-> FALSE]
    /\ fatal = FALSE
    /\ accepted = FALSE
    /\ nacm_mode \in {"disabled", "external"}
    /\ nacm_file \in IF nacm_mode = "external" THEN NacmFiles
                      ELSE {[state |-> "unset", tree |-> NULL]}
    /\ nacm_ext = NULL
    /\ nacm_xtree = NULL
    /\ running0 \in PersistedRunning
    /\ running = running0
    /\ tmp = {}
    /\ candidate = NULL
    /\ cbret = FALSE
    /\ recorded = "unset"
    /\ trace = <<>>
    /\ lastreq = NoRequest

\* the error encoder: what the caller holds before the call
EncInit ==
    /\ cb0 \in CbPrefixes
    /\ cb = cb0
    /\ xret0 \in Roots
    /\ xret = xret0
    /\ last = NoCall

EncNext ==
    \/ Call_netconf_in_use
    \/ Call_netconf_invalid_value_xml
    \/ Call_netconf_invalid_value
    \/ Call_netconf_too_big
    \/ Call_netconf_missing_attribute
    \/ Call_netconf_bad_attribute
    \/ Call_netconf_unknown_attribute
    \/ Call_netconf_missing_element
    \/ Call_netconf_missing_element_xml
    \/ Call_netconf_bad_element
    \/ Call_netconf_bad_element_xml
    \/ Call_netconf_unknown_element
    \/ Call_netconf_unknown_element_xml
    \/ Call_netconf_unknown_namespace
    \/ Call_netconf_unknown_namespace_xml
    \/ Call_netconf_access_denied
    \/ Call_netconf_access_denied_xml
    \/ Call_netconf_lock_denied
    \/ Call_netconf_resource_denied
    \/ Call_netconf_rollback_failed
    \/ Call_netconf_data_exists
    \/ Call_netconf_data_missing
    \/ Call_netconf_data_missing_xml
    \/ Call_netconf_operation_not_supported
    \/ Call_netconf_operation_failed
    \/ Call_netconf_operation_failed_xml
    \/ Call_netconf_malformed_message
    \/ Call_netconf_malformed_message_xml
    \/ Call_netconf_data_not_unique_xml
    \/ Call_netconf_minmax_elements_xml
    \/ Call_netconf_trymerge

\* main() while another part of the program is looked at
MainIdle ==
    /\ pc = "exit" /\ zap = FALSE /\ once = FALSE /\ startup_mode = "none"
    /\ sockfamily = "UNIX" /\ opts = FALSE /\ pidfile = "none"
    /\ sockfile = "none" /\ daemon = FALSE /\ status = "STARTUP_ERR"
    /\ suberrno = "none" /\ retval = 0 /\ exitcode = 0 /\ ss = FALSE
    /\ handlers = FALSE /\ clicon_exit = FALSE /\ sigcount = 0 /\ events = 0
    /\ released = FALSE /\ log = {} /\ fatal = FALSE /\ accepted = FALSE
    /\ nacm_mode = "disabled" /\ nacm_file = [state |-> "unset", tree |-> NULL]
    /\ nacm_ext = NULL /\ nacm_xtree = NULL
    /\ running0 = {} /\ running = {} /\ tmp = {}
    /\ candidate = NULL /\ cbret = FALSE /\ recorded = "unset"
    /\ trace = <<>> /\ lastreq = NoRequest
    /\ r2s = [called |-> FALSE, ret |-> 1, suberrno |-> "none",
              before |-> "STARTUP_ERR", after |-> "STARTUP_ERR",
              retval |-> 0, reset |-> FALSE]

\* no library function has been applied
LibIdle == lib_fn = "" /\ lib_in = NULL /\ lib_out = NULL

\* the dispatcher before any client has connected
SrvIdle ==
    /\ sessions = {} /\ next_id = 1 /\ locks = [d \in Datastores |-> 0]
    /\ cc = CcInactive /\ db_running = {} /\ db_candidate = {}
    /\ rb = NULL /\ reply = NoReply

ExtIdle == LibIdle /\ SrvIdle

\* the dispatcher when the event loop starts: candidate is a copy of running
SrvStart ==
    /\ sessions = {} /\ next_id = 1 /\ locks = [d \in Datastores |-> 0]
    /\ cc = CcInactive /\ db_running \in {{}, {"a"}}
    /\ db_candidate = db_running
    /\ rb = NULL /\ reply = NoReply

SrvInit == EncIdle /\ MainIdle /\ LibIdle /\ SrvStart

\* sessions, locks and edits
LockNext ==
    \/ Srv_connect
    \/ Srv_lock
    \/ Srv_unlock
    \/ Srv_close
    \/ Srv_kill
    \/ Srv_edit
    \/ Srv_discard

\* sessions, edits, commits and confirmed commits
SrvNext ==
    \/ Srv_connect
    \/ Srv_close
    \/ Srv_edit
    \/ Srv_discard
    \/ Srv_commit
    \/ Srv_timeout
    \/ Srv_cancel_commit
    \/ Srv_rollback

EncStart == MainIdle /\ ExtIdle /\ EncInit

\* the error encoder
SpecEnc == EncStart /\ [][EncNext]_vars

Init == EncIdle /\ ExtIdle /\ MainStart

Next == MainStep \/ Signal

\* backend main()
Spec == Init /\ [][Next]_vars

\* main() is a running process: it takes its next step
FairSpec == Spec /\ WF_vars(MainStep)

LibStart == EncIdle /\ MainIdle /\ LibIdle /\ SrvIdle

LibNext ==
    \/ Apply_ret2status
    \/ Apply_netconf_err2cb
    \/ Build_xml
    \/ Apply_mibyang_table_traverse_static
    \/ Apply_mibyang_traverse
    \/ Apply_CommitEngine

\* the library functions, each applied once to one input (the tree builders
\* in chains on one output root)
SpecLib == LibStart /\ [][LibNext]_vars

\* the dispatcher serving lock requests
SpecLock == SrvInit /\ [][LockNext]_vars

\* the dispatcher serving commits
SpecSrv == SrvInit /\ [][SrvNext]_vars

\* a timer that is armed expires, and a rollback that has begun completes
FairSrv == SpecSrv /\ WF_vars(Srv_timeout) /\ WF_vars(Srv_rollback)

-----------------------------------------------------------------------------
(* What a caller observes of a builder call *)

\* the text the call appended to the cbuf
Appended == SubSeq(cb, Len(cb0) + 1, Len(cb))

\* the reply: the appended text parsed, or the output tree
Reply ==
    IF last.form = "cbuf"
    THEN LET p == xml_parse_va(xml_new("top"), Appended)
         IN  IF p.ok /\ Len(p.x.kids) = 1 THEN <<p.x.kids[1]>> ELSE NULL
    ELSE xret

\* the rpc-error the call added: the last child of the reply
Rpcerror ==
    IF Reply = NULL \/ Reply[1].name # "rpc-reply" \/ Reply[1].kids = <<>>
    THEN NULL
    ELSE LET k == Reply[1].kids[Len(Reply[1].kids)]
         IN  IF k.name = "rpc-error" THEN <<k>> ELSE NULL

\* the call was made and reported an error to its caller
ErrBuilt ==
    /\ last.fn # ""
    /\ last.retval = 0
    /\ Rpcerror # NULL

Field(n) == IF Rpcerror = NULL THEN NULL ELSE xml_find(Rpcerror[1], n)

FieldIs(n, s) == Field(n) # NULL /\ Field(n)[1].body = s

TypeIs(t) == FieldIs("error-type", <<Chr(t)>>)
TagIs(t)  == FieldIs("error-tag", <<Chr(t)>>)

\* character data read back: the entity references resolved
DecodeChr(c) ==
    CASE c.v = "&amp;" -> Chr("&")
      [] c.v = "&lt;"  -> Chr("<")
      [] c.v = "&gt;"  -> Chr(">")
      [] OTHER         -> c

Decode(s) == [i \in 1..Len(s) |-> DecodeChr(s[i])]

\* the merge helper returns 1 when there is no error to report; every other
\* builder that returns 0 has added its rpc-error
MergeHelpers == {"netconf_trymerge"}

WellFormed ==
    (last.fn # "" /\ last.retval = 0 /\ last.fn \notin MergeHelpers)
        => Rpcerror # NULL

-----------------------------------------------------------------------------
(* Claims *)

\* C1: a lock-denied error always has error-type protocol, a
\* malformed-message error always rpc, a data-exists error always
\* application, whatever the caller passes.
C1_FixedTypes ==
    /\ WellFormed
    /\ last.fn = "netconf_lock_denied" => ErrBuilt /\ TagIs("lock-denied")
    /\ last.fn \in {"netconf_malformed_message",
                    "netconf_malformed_message_xml"}
           => ErrBuilt /\ TagIs("malformed-message")
    /\ last.fn = "netconf_data_exists" => ErrBuilt /\ TagIs("data-exists")
    /\ ErrBuilt =>
          /\ TagIs("lock-denied") => TypeIs("protocol")
          /\ TagIs("malformed-message") => TypeIs("rpc")
          /\ TagIs("data-exists") => TypeIs("application")

C1_Witness ==
    /\ last.fn = "netconf_lock_denied"
    /\ last.message # NULL
    /\ TagIs("lock-denied")
    /\ TypeIs("protocol")

\* C2 (as the specification states it): every error whose tag is not
\* lock-denied, malformed-message or data-exists carries the error-type the
\* caller supplied.
C2_CallerTypeAlways ==
    (ErrBuilt /\ ~TagIs("lock-denied") /\ ~TagIs("malformed-message")
              /\ ~TagIs("data-exists"))
        => (last.type # NULL /\ FieldIs("error-type", last.type[1]))

\* C2 (amended): a builder that takes an error-type argument emits it
\* unchanged; the builders that take none emit a fixed one: data-missing is
\* application, data-not-unique and too-many/too-few-elements are protocol,
\* the merge helper's operation-failed is rpc.
C2_CallerType ==
    ErrBuilt =>
       /\ last.type # NULL => FieldIs("error-type", last.type[1])
       /\ last.type = NULL =>
             last.fn \in {"netconf_lock_denied", "netconf_data_exists",
                          "netconf_malformed_message",
                          "netconf_malformed_message_xml",
                          "netconf_data_missing", "netconf_data_missing_xml",
                          "netconf_data_not_unique_xml",
                          "netconf_minmax_elements_xml", "netconf_trymerge"}
       /\ last.fn \in {"netconf_data_missing", "netconf_data_missing_xml"}
             => TagIs("data-missing") /\ TypeIs("application")
       /\ last.fn \in {"netconf_data_not_unique_xml",
                       "netconf_minmax_elements_xml"}
             => TagIs("operation-failed") /\ TypeIs("protocol")
       /\ last.fn = "netconf_trymerge"
             => TagIs("operation-failed") /\ TypeIs("rpc")

C2_Witness ==
    /\ last.fn = "netconf_data_missing_xml"
    /\ ErrBuilt
    /\ TagIs("data-missing")
    /\ TypeIs("application")

\* C3: a message passed to a builder is embedded XML-escaped, so that the
\* error-message element reads back as the message and holds no raw special
\* character; without a message there is no error-message element.  The
\* merge helper does the same with the reason of the failed merge.
C3_MessageEscaped ==
    /\ WellFormed
    /\ ErrBuilt =>
          IF last.message = NULL
          THEN Field("error-message") = NULL
          ELSE /\ Field("error-message") # NULL
               /\ \A i \in 1..Len(Field("error-message")[1].body) :
                     Field("error-message")[1].body[i].v \notin {"<", ">", "&"}
               /\ Decode(Field("error-message")[1].body) = last.message[1]

C3_Witness ==
    /\ last.fn = "netconf_trymerge"
    /\ ErrBuilt
    /\ last.message = <<<<Chr("no"), Chr("<"), Chr("yang")>>>>
    /\ FieldIs("error-message", <<Chr("no"), Chr("&lt;"), Chr("yang")>>)

\* the place of a child of rpc-error in the canonical layout
Rank(n) ==
    CASE n = "error-type"     -> 1
      [] n = "error-tag"      -> 2
      [] n = "error-severity" -> 3
      [] n = "error-app-tag"  -> 4
      [] n = "error-path"     -> 5
      [] n = "error-info"     -> 6
      [] n = "error-message"  -> 7
      [] OTHER                -> 8

\* C4: the children of an rpc-error come in the canonical order type, tag,
\* severity, app-tag, path, info, message; info and app-tag never precede
\* severity.
C4_CanonicalOrder ==
    ErrBuilt =>
       \A i, j \in 1..Len(Rpcerror[1].kids) :
          i < j => Rank(Rpcerror[1].kids[i].name) < Rank(Rpcerror[1].kids[j].name)

\* the tree a wrapper's tree builder makes from a NULL root, rendered
Rendered ==
    LET t == IF last.type = NULL THEN <<>> ELSE last.type[1]
        a == IF last.arg = NULL THEN <<>> ELSE last.arg[1]
        m == last.message
        r == CASE last.fn = "netconf_invalid_value" ->
                      netconf_invalid_value_xml(NULL, t, m)
               [] last.fn = "netconf_missing_element" ->
                      netconf_missing_element_xml(NULL, t, a, m)
               [] last.fn = "netconf_bad_element" ->
                      netconf_bad_element_xml(NULL, t, a, m)
               [] last.fn = "netconf_unknown_element" ->
                      netconf_unknown_element_xml(NULL, t, a, m)
               [] last.fn = "netconf_unknown_namespace" ->
                      netconf_unknown_namespace_xml(NULL, t, a, m)
               [] last.fn = "netconf_access_denied" ->
                      netconf_access_denied_xml(NULL, t, m)
               [] last.fn = "netconf_data_missing" ->
                      netconf_data_missing_xml(NULL, last.arg, m)
               [] last.fn = "netconf_operation_failed" ->
                      netconf_operation_failed_xml(NULL, t, m)
               [] OTHER ->
                      netconf_malformed_message_xml(NULL, m)
    IN  IF r.retval < 0 THEN NULL ELSE <<clicon_xml2cbuf(r.xret[1])>>

Wrappers ==
    {"netconf_invalid_value", "netconf_missing_element", "netconf_bad_element",
     "netconf_unknown_element", "netconf_unknown_namespace",
     "netconf_access_denied", "netconf_data_missing",
     "netconf_operation_failed", "netconf_malformed_message"}

\* C6: for a tag with both forms, the text the serialized builder appends
\* to the cbuf is the rendering of the tree the tree builder makes from a
\* NULL root with the same arguments.
C6_SerializedIsRendered ==
    (last.fn \in Wrappers /\ last.retval = 0)
        => (Rendered # NULL /\ Appended = Rendered[1])

C6_Witness ==
    /\ last.fn = "netconf_operation_failed"
    /\ last.retval = 0
    /\ last.message = <<<<>>>>
    /\ cb0 # <<>>
    /\ Appended = Rendered[1]
    /\ Appended[Len(Appended) - 2] = Empty("error-message")

\* C7: ret2status maps 1 to STARTUP_OK, 0 to STARTUP_INVALID, -1 with
\* clicon_suberrno = XMLPARSE_ERRNO to STARTUP_ERR with the error cleared;
\* -1 with any other error is fatal: the status is left as it was and the
\* backend terminates without having accepted clients.
C7_Ret2Status ==
    r2s.called =>
       /\ r2s.ret = 1 => (r2s.retval = 0 /\ r2s.after = "STARTUP_OK")
       /\ r2s.ret = 0 => (r2s.retval = 0 /\ r2s.after = "STARTUP_INVALID")
       /\ (r2s.ret = -1 /\ r2s.suberrno = "XMLPARSE_ERRNO")
             => (r2s.retval = 0 /\ r2s.after = "STARTUP_ERR" /\ r2s.reset
                 /\ suberrno = "none" /\ status # "STARTUP_OK")
       /\ (r2s.ret = -1 /\ r2s.suberrno # "XMLPARSE_ERRNO")
             => (r2s.retval = -1 /\ r2s.after = r2s.before
                 /\ status = r2s.before /\ fatal /\ ~accepted /\ ~ss
                 /\ pc \in {"done", "exit"}
                 /\ (pc = "exit" => exitcode # 0))

C7_Witness ==
    /\ r2s.called
    /\ r2s.ret = -1
    /\ r2s.suberrno = "other"
    /\ pc = "exit"
    /\ released
    /\ ~accepted

\* C8: the pidfile and the socket of a live daemon are removed only when -z
\* is given; without -z the second backend reports "already running" and
\* exits non-zero, leaving both in place.
C8_PidfileGuard ==
    /\ (daemon /\ ~zap)
          => (pidfile = "other" /\ (sockfamily = "UNIX" => sockfile = "other"))
    /\ (pc = "exit" /\ "already running" \in log) => exitcode # 0

\* C9: the exit code is 0 for every run that hits no fatal error, the
\* one-shot (-1) and the -z runs included, and non-zero for every run that
\* hits one.
C9_ExitCode ==
    pc = "exit" => ((exitcode = 0) <=> ~fatal)

\* C10: a SIGTERM or SIGINT that arrives while the event loop runs makes
\* the backend terminate: the server socket is closed, the handle is
\* released, the pidfile and the Unix socket are unlinked, and main()
\* returns 0; further signals do not change this.
C10_SignalTerminates ==
    (pc = "loop" /\ clicon_exit)
        ~> (pc = "exit" /\ exitcode = 0 /\ ~ss /\ released
            /\ pidfile = "none" /\ sockfile = "none")

C10_Witness ==
    /\ pc = "exit"
    /\ clicon_exit
    /\ sigcount = MaxSignals
    /\ "Signal" \in log
    /\ exitcode = 0
    /\ pidfile = "none"
    /\ released

\* C15: the merge helper returns 1 when the output root was NULL (it becomes
\* a copy of the input) or the merge succeeded; 0 when the merge reports a
\* reason, and then the root has lost every previous child and holds exactly
\* one rpc-error, with tag operation-failed and the reason as its message;
\* -1 otherwise.  After 0 nothing of the previous content of the root is left.
C15_Trymerge ==
    last.fn = "netconf_trymerge" =>
       LET x      == last.arg[1]
           ret    == last.arg[2]
           reason == last.message
       IN  /\ last.retval \in {-1, 0, 1}
           /\ last.retval = 1 <=> (xret0 = NULL \/ (ret >= 0 /\ reason = NULL))
           /\ last.retval = 0 <=> (xret0 # NULL /\ ret >= 0 /\ reason # NULL)
           /\ (last.retval = 1 /\ xret0 = NULL) => xret = <<x>>
           /\ (last.retval = 1 /\ xret0 # NULL) =>
                 \A i \in 1..Len(xret0[1].kids) :
                    xret[1].kids[i] = xret0[1].kids[i]
           /\ last.retval = -1 => xret = xret0
           /\ last.retval = 0 =>
                 /\ Len(xret[1].kids) = 1
                 /\ xret[1].body = <<>>
                 /\ xret[1].kids[1].name = "rpc-error"
                 /\ TagIs("operation-failed")
                 /\ Field("error-message") # NULL
                 /\ Decode(Field("error-message")[1].body) = reason[1]

C15_Witness ==
    /\ last.fn = "netconf_trymerge"
    /\ last.retval = 0
    /\ xret0 # NULL
    /\ xret0[1].kids # <<>>
    /\ Len(xret[1].kids) = 1
    /\ TagIs("operation-failed")

\* the components of cvk that the list entry x has, in order
Present(x, cvk) == SelectSeq(cvk, LAMBDA c : xml_find(x, c) # NULL)

\* C16 (as the specification states it): every data-not-unique error has
\* tag operation-failed, app-tag data-not-unique and an error-info with one
\* non-unique entry for each component of the unique constraint, an empty
\* vector and components the entry lacks included.
C16_InfoForEveryComponent ==
    (last.fn = "netconf_data_not_unique_xml" /\ last.retval = 0) =>
       /\ TagIs("operation-failed")
       /\ FieldIs("error-app-tag", <<Chr("data-not-unique")>>)
       /\ Field("error-info") # NULL
       /\ Len(Field("error-info")[1].kids) = Len(last.arg[2])

\* C16 (amended): every data-not-unique error has tag operation-failed and
\* app-tag data-not-unique; when the component vector is not empty it has an
\* error-info with one non-unique entry, in order, for each component that
\* the list entry has, holding that leaf; with an empty vector it has no
\* error-info.
C16_InfoForPresentComponents ==
    (last.fn = "netconf_data_not_unique_xml" /\ last.retval = 0) =>
       LET x    == last.arg[1]
           cvk  == last.arg[2]
           info == Field("error-info")
           here == Present(x, cvk)
       IN  /\ ErrBuilt
           /\ TagIs("operation-failed")
           /\ FieldIs("error-app-tag", <<Chr("data-not-unique")>>)
           /\ cvk = <<>> => info = NULL
           /\ cvk # <<>> =>
                 /\ info # NULL
                 /\ Len(info[1].kids) = Len(here)
                 /\ \A i \in 1..Len(here) :
                       /\ info[1].kids[i].name = "non-unique"
                       /\ info[1].kids[i].kids = xml_find(x, here[i])

C16_Witness ==
    /\ last.fn = "netconf_data_not_unique_xml"
    /\ last.retval = 0
    /\ last.arg[2] = <<"k1", "k2">>
    /\ xml_find(last.arg[1], "k2") = NULL
    /\ Field("error-info") # NULL
    /\ Len(Field("error-info")[1].kids) = 1

\* positions of the calls of fn in the startup trace
Pos(fn) == {i \in DOMAIN trace : trace[i].fn = fn}

\* positions of the successful calls of fn on datastore db
PosOk(fn, db) == {i \in Pos(fn) : trace[i].db = db /\ trace[i].ok}

\* every call of fnB in the trace comes after a successful call of fnA on db
Precedes(fnA, db, fnB) ==
    \A j \in Pos(fnB) : \E i \in PosOk(fnA, db) : i < j

\* positions of the copies of running to candidate
CandidatePos == {i \in Pos("xmldb_copy") : trace[i].db = "candidate"}

\* the backend has opened its socket and no request has been served yet
FirstAccept == accepted /\ events = 0 /\ lastreq = NoRequest

\* C11: when the startup status is not OK, the failsafe is loaded before the
\* candidate is initialised and before a client is accepted, the invalidation
\* text (when there is one) is logged, the recorded status is the non-OK
\* value, and a failed failsafe load ends the backend before any client is
\* accepted
C11_Failsafe ==
    /\ (status # "STARTUP_OK" /\ (CandidatePos # {} \/ accepted)) =>
          /\ PosOk("startup_failsafe", "running") # {}
          /\ \A j \in CandidatePos :
                /\ \E i \in PosOk("startup_failsafe", "running") : i < j
                /\ trace[j].content = FailsafeContent
          /\ Precedes("startup_failsafe", "running", "backend_server_socket")
          /\ cbret => "cbret" \in log
    /\ (status # "STARTUP_OK" /\ accepted) => recorded = status
    /\ (\E i \in Pos("startup_failsafe") : ~trace[i].ok) =>
          ~accepted /\ fatal /\ candidate = NULL

C11_Witness ==
    /\ accepted
    /\ status = "STARTUP_ERR"
    /\ startup_mode = "startup"
    /\ recorded = "STARTUP_ERR"
    /\ candidate = <<FailsafeContent>>

\* C12 as stated: in mode init no validation or commit step runs between the
\* reset of running and the moment clients are accepted
C12_InitNoValidation ==
    (startup_mode = "init" /\ accepted) =>
        \A i \in DOMAIN trace : trace[i].fn \notin Validating

\* C12: in mode init running is reset to empty and the plugins are
\* initialised, the startup datastore is never validated or committed before
\* clients are accepted; the extra XML is still validated and merged, and the
\* failsafe is loaded only when that fails
C12_InitNoStartupValidation ==
    (startup_mode = "init" /\ accepted) =>
        /\ trace[1] = Step("startup_db_reset", "running", {}, TRUE)
        /\ trace[2] = Step("backend_plugin_initiate", "", {}, TRUE)
        /\ trace[3].fn = "startup_extraxml"
        /\ Pos("startup_mode_startup") = {}
        /\ Pos("startup_failsafe") # {} => ~trace[3].ok
        /\ running \cap running0 = {}

C12_Witness ==
    /\ startup_mode = "init"
    /\ FirstAccept
    /\ running0 = {"a"}
    /\ running = {"x"}
    /\ status = "STARTUP_OK"

\* C13: in mode none the persisted running content is unchanged when clients
\* are first accepted, no startup validation, commit or extra-XML merge has
\* run, and the startup status is OK
C13_NoneUntouched ==
    (startup_mode = "none" /\ FirstAccept) =>
        /\ running = running0
        /\ candidate = <<running0>>
        /\ \A i \in DOMAIN trace :
              trace[i].fn \notin Validating \cup {"startup_db_reset"}
        /\ status = "STARTUP_OK"
        /\ recorded = "STARTUP_OK"

C13_Witness ==
    /\ startup_mode = "none"
    /\ FirstAccept
    /\ running = {"a"}

Matching(n, req) ==
    {p \in (DOMAIN n.rule_lists) \X (1..3) :
        /\ p[2] \in DOMAIN n.rule_lists[p[1]].rules
        /\ n.rule_lists[p[1]].groups \cap UserGroups(n, req.user) # {}
        /\ RuleMatches(n.rule_lists[p[1]].rules[p[2]], req)}

\* document order of rules
Earlier(p, q) == p[1] < q[1] \/ (p[1] = q[1] /\ p[2] <= q[2])

\* a request has been answered under a ruleset
Decided == lastreq # NoRequest /\ lastreq.nacm # NULL

\* the rpc-error of the reply to the last request
DeniedError ==
    IF lastreq.reply = NULL THEN NULL
    ELSE xml_find(lastreq.reply[1], "rpc-error")

DeniedField(n) ==
    IF DeniedError = NULL THEN NULL ELSE xml_find(DeniedError[1], n)

DeniedFieldIs(n, t) == DeniedField(n) # NULL /\ DeniedField(n)[1].body = <<Chr(t)>>

\* the last request was denied with message t
DeniedWith(t) ==
    /\ ~lastreq.decision.permit
    /\ DeniedFieldIs("error-tag", "access-denied")
    /\ DeniedFieldIs("error-message", t)

\* the last request is op by user, under the ruleset of test_nacm_ext.sh
TestCase(user, op) ==
    /\ lastreq.nacm = <<TestNacm>>
    /\ lastreq.req.user = user
    /\ lastreq.req.op = op

\* C17: the first matching rule in document order, among the rule-lists of
\* the user's groups, decides; without a match the default of the operation
\* class decides; a denial by a rule says 'access denied', a denial by
\* default says 'default deny'
C17_FirstMatchDecides ==
    /\ Decided =>
          LET n   == lastreq.nacm[1]
              req == lastreq.req
              M   == Matching(n, req)
              dfl == IF req.op = "read" THEN n.read_default
                     ELSE IF req.op \in {"create", "update", "delete"}
                     THEN n.write_default
                     ELSE n.exec_default
          IN  IF M # {}
              THEN \E p \in M :
                      /\ \A q \in M : Earlier(p, q)
                      /\ IF n.rule_lists[p[1]].rules[p[2]].action = "permit"
                         THEN lastreq.decision.permit /\ lastreq.reply = NULL
                         ELSE DeniedWith("access denied")
              ELSE IF dfl = "permit"
                   THEN lastreq.decision.permit /\ lastreq.reply = NULL
                   ELSE DeniedWith("default deny")
    /\ TestCase("guest", "read") => DeniedWith("access denied")
    /\ TestCase("guest", "update") => DeniedWith("access denied")
    /\ TestCase("guest", "exec") => DeniedWith("access denied")
    /\ TestCase("wilma", "update") => DeniedWith("default deny")
    /\ TestCase("wilma", "exec") => DeniedWith("default deny")
    /\ TestCase("wilma", "read") => lastreq.decision.permit
    /\ TestCase("andy", "read") => lastreq.decision.permit
    /\ TestCase("andy", "update") => lastreq.decision.permit

C17_Witness ==
    /\ Decided
    /\ lastreq.nacm = <<OrderNacm>>
    /\ lastreq.req.user = "andy"
    /\ lastreq.req.op = "exec"
    /\ Cardinality(Matching(OrderNacm, lastreq.req)) > 1
    /\ DeniedWith("access denied")

\* C18: a denied data-node access is answered with access-denied of type
\* application, a denied RPC execution with access-denied of type protocol
C18_DeniedType ==
    (Decided /\ ~lastreq.decision.permit) =>
        /\ DeniedFieldIs("error-tag", "access-denied")
        /\ lastreq.req.op \in {"create", "read", "update", "delete"} =>
              DeniedFieldIs("error-type", "application")
        /\ lastreq.req.op = "exec" => DeniedFieldIs("error-type", "protocol")

C18_Witness ==
    /\ TestCase("guest", "read")
    /\ DeniedFieldIs("error-type", "application")
    /\ DeniedFieldIs("error-severity", "error")

\* C19: a request NACM denies changes no datastore, whatever permitted and
\* denied requests came before it
C19_DeniedChangesNothing ==
    (Decided /\ ~lastreq.decision.permit) =>
        /\ running = lastreq.running
        /\ candidate = lastreq.candidate
        /\ tmp = IF startup_mode = "running" THEN running0 ELSE {}

C19_Witness ==
    /\ TestCase("wilma", "update")
    /\ ~lastreq.decision.permit
    /\ events = 2
    /\ running = lastreq.running
    /\ "andy" \in running

\* C20: in external mode the ruleset in force is the tree read from the file
\* at startup and given to the datastore layer; clients are accepted only when the file option is set and
\* names a regular file that parses to a tree; no request changes the ruleset
C20_ExternalNacm ==
    /\ nacm_ext # NULL =>
          /\ nacm_mode = "external"
          /\ nacm_file.state = "ok"
          /\ nacm_ext = nacm_file.tree
    /\ (nacm_mode = "external" /\ nacm_file.state # "ok") =>
          /\ ~accepted
          /\ Pos("backend_server_socket") = {}
          /\ pc \notin {"start", "options", "nacm"} => fatal
    /\ (nacm_mode = "external" /\ accepted) =>
          nacm_ext # NULL /\ nacm_xtree = nacm_ext
    /\ nacm_xtree \in {NULL, nacm_ext}
    /\ lastreq # NoRequest => lastreq.nacm = nacm_ext

C20_Witness ==
    /\ nacm_mode = "external"
    /\ nacm_ext = <<OrderNacm>>
    /\ events = 2
    /\ running # lastreq.running
    /\ startup_mode = "init"

-----------------------------------------------------------------------------
(* Claims about library functions, checked under SpecLib *)

\* C26: for every startup result other than -1, 0 and 1 the status mapping
\* returns -1 (a fatal error, on which main() aborts startup)
C26_OtherIsFatal ==
    (lib_fn = "ret2status" /\ lib_in.ret \notin {-1, 0, 1}) =>
        lib_out.retval = -1

\* the text of child n of an rpc-error followed by one space, nothing when
\* the rpc-error has no such child
SpacedPart(xerr, n) ==
    LET idx == {i \in DOMAIN xerr.kids : xerr.kids[i].name = n}
    IN  IF idx = {} THEN <<>>
        ELSE xerr.kids[CHOOSE i \in idx : TRUE].body \o <<Chr(" ")>>

\* the first child of error-info as XML text, nothing without error-info
InfoPart(xerr) ==
    LET idx == {i \in DOMAIN xerr.kids : xerr.kids[i].name = "error-info"}
    IN  IF idx = {} THEN <<>>
        ELSE LET c == xerr.kids[CHOOSE i \in idx : TRUE].kids[1]
             IN  IF c.body = <<>> /\ c.kids = <<>>
                 THEN <<[k |-> "empty", v |-> c.name]>>
                 ELSE <<[k |-> "open", v |-> c.name]>> \o c.body
                      \o <<[k |-> "close", v |-> c.name]>>

KidsBefore(xr) == IF xr = NULL THEN <<>> ELSE xr[1].kids

\* C28: after n tree builder calls on one output root, the root is named
\* rpc-reply and holds what it held before followed by one rpc-error per
\* call in call order, each as the builder makes it on a root of its own
C28_OnePerCall ==
    lib_fn = "xml" =>
        LET root == lib_out.xret[1]
            old  == KidsBefore(lib_in.root)
            n    == Len(lib_in.calls)
        IN  /\ root.name = "rpc-reply"
            /\ Len(root.kids) = Len(old) + n
            /\ SubSeq(root.kids, 1, Len(old)) = old
            /\ \A i \in 1 .. n :
                  /\ root.kids[Len(old) + i].name = "rpc-error"
                  /\ root.kids[Len(old) + i] =
                        XmlBuild(lib_in.calls[i], NULL).xret[1].kids[1]

C28_Witness ==
    /\ lib_fn = "xml"
    /\ lib_in.root # NULL
    /\ KidsBefore(lib_in.root) # <<>>
    /\ lib_in.calls = <<"netconf_minmax_elements_xml",
                        "netconf_operation_failed_xml">>
    /\ Len(lib_out.xret[1].kids) = 3
    /\ lib_out.xret[1].kids[2] # lib_out.xret[1].kids[3]

\* a row holds every key leaf of the list
CompleteRow(ylist, xrow) ==
    \A i \in DOMAIN ylist.keys :
       \E j \in DOMAIN xrow : xrow[j].name = ylist.keys[i]

\* the key values of a complete row in key order
KeyValues(ylist, xrow) ==
    [i \in DOMAIN ylist.keys |->
        xrow[CHOOSE j \in DOMAIN xrow :
                /\ xrow[j].name = ylist.keys[i]
                /\ \A k \in DOMAIN xrow :
                      xrow[k].name = ylist.keys[i] => j <= k].body]

\* the schema node of a column
ColumnSpec(ylist, xcol) ==
    ylist.kids[CHOOSE i \in DOMAIN ylist.kids : ylist.kids[i].arg = xcol.name]

HasSpec(ylist, xcol) ==
    \E i \in DOMAIN ylist.kids : ylist.kids[i].arg = xcol.name

\* a column that can be registered: its schema node has an smiv2 oid that
\* parses with the key values appended, and a max-access
Mapped(ylist, xrow, xcol) ==
    LET y == ColumnSpec(ylist, xcol)
    IN  /\ y.oid # NULL
        /\ \A i \in DOMAIN y.oid[1] : y.oid[1][i] >= 0
        /\ \A i \in DOMAIN ylist.keys : KeyValues(ylist, xrow)[i] >= 0
        /\ y.access # NULL

\* the registrations a row asks for: of every column whose schema node has
\* an OID, or of the mapped ones only
RowWanted(ylist, xrow, mapped) ==
    LET cols == SelectSeq(xrow, LAMBDA c :
                    /\ HasSpec(ylist, c)
                    /\ ColumnSpec(ylist, c).oid # NULL
                    /\ mapped => Mapped(ylist, xrow, c))
    IN  [i \in DOMAIN cols |->
            [kind |-> "instance", name |-> cols[i].name,
             oid |-> ColumnSpec(ylist, cols[i]).oid[1]
                     \o KeyValues(ylist, xrow)]]

TableWanted(ylist, rows, mapped) ==
    LET w[n \in 0 .. Len(rows)] ==
            IF n = 0 THEN <<>>
            ELSE w[n - 1] \o (IF CompleteRow(ylist, rows[n])
                              THEN RowWanted(ylist, rows[n], mapped)
                              ELSE <<>>)
    IN  w[Len(rows)]

\* some column of some complete row is wanted and the agent refuses it
ColumnRefused(ylist, rows, refused, mapped) ==
    \E i \in DOMAIN TableWanted(ylist, rows, mapped) :
       TableWanted(ylist, rows, mapped)[i].oid \in refused

ColumnInstances(regs) ==
    {i \in DOMAIN regs : regs[i].kind = "instance" /\ Len(regs[i].oid) > 2}

\* C29: column instances of a list in a container are registered only after
\* the table handler of that container was registered; when the container
\* has no OID or a key leaf has no ASN.1 type, none is registered; the
\* leaves of the list are never registered as scalars
C29_TableBeforeColumns ==
    lib_fn = "mibyang_traverse" =>
        LET ys    == lib_in.ym.kids[2]
            ylist == ys.kids[1]
            regs  == lib_out.regs
        IN  /\ \A i \in ColumnInstances(regs) :
                  \E j \in 1 .. i - 1 : regs[j].kind = "table"
            /\ (ys.oid = NULL
                \/ \E k \in DOMAIN ylist.kids : ~ylist.kids[k].asn1) =>
                  ColumnInstances(regs) = {}
            /\ \A i \in DOMAIN regs :
                  regs[i].kind = "instance" =>
                     \A k \in DOMAIN ylist.kids :
                        ylist.kids[k].oid # <<regs[i].oid>>

-----------------------------------------------------------------------------
(* Claims about main(), checked under Spec *)

\* C27: no step of a backend started without -z while a live daemon owns the
\* pidfile unlinks that daemon's pidfile or its Unix socket, whichever step
\* fails and wherever
C27_NoStepUnlinks ==
    [][(daemon /\ ~zap) =>
          /\ pidfile = "other" => pidfile' = "other"
          /\ sockfile = "other" => sockfile' = "other"]_vars

\* the start-up steps that write the running datastore
RunningWriters ==
    {"startup_db_reset", "startup_mode_startup", "startup_extraxml",
     "startup_failsafe"}

\* C30: in every startup mode and status, when the server socket is opened
\* the candidate is the copy of running made after the startup, extra-XML
\* and failsafe steps, running is still what was copied, and the pidfile is
\* written and the signal handlers are installed
C30_CandidateAtAccept ==
    /\ (candidate # NULL /\ events = 0) => candidate = <<running>>
    /\ PosOk("backend_server_socket", "") # {} =>
          /\ \E c \in CandidatePos :
                /\ CandidatePos = {c}
                /\ trace[c].ok
                /\ \A i \in DOMAIN trace :
                      trace[i].fn \in RunningWriters => i < c
                /\ \A j \in Pos("backend_server_socket") : c < j
                /\ (FirstAccept /\ ss) => trace[c].content = running
          /\ (FirstAccept /\ ss) => pidfile = "own" /\ handlers
          /\ recorded = status

C30_Witness ==
    /\ FirstAccept
    /\ ss
    /\ startup_mode = "startup"
    /\ status = "STARTUP_INVALID"
    /\ PosOk("startup_failsafe", "running") # {}
    /\ candidate = <<FailsafeContent>>
    /\ pidfile = "own"

-----------------------------------------------------------------------------
(* Claims about the dispatcher, checked under SpecLock and SpecSrv *)

\* text holds the lexemes of sub in a row
Contains(text, sub) ==
    \E i \in 1 .. Len(text) - Len(sub) + 1 :
       SubSeq(text, i, i + Len(sub) - 1) = sub

\* a lock-denied reply of type protocol whose error-info names the holder
DeniedFor(text, holder) ==
    /\ Contains(text, <<Open("error-type"), Chr("protocol"),
                        Close("error-type")>>)
    /\ Contains(text, <<Open("error-tag"), Chr("lock-denied"),
                        Close("error-tag")>>)
    /\ Contains(text, <<Open("error-info"), Open("session-id"),
                        Chr(IF holder = 1 THEN "1" ELSE "2"),
                        Close("session-id"), Close("error-info")>>)

\* C21: a datastore lock is held by one connected session at most; a lock
\* request on a datastore that s1 holds is answered with lock-denied of type
\* protocol naming s1 in error-info and changes no lock; a lock goes from
\* its holder only by the holder's unlock or the end of its session, and
\* both release it
C21_LockExclusion ==
    /\ [](\A d \in Datastores : locks[d] = 0 \/ locks[d] \in sessions)
    /\ [][/\ \A d \in Datastores :
                (locks[d] # 0 /\ locks'[d] # locks[d]) =>
                   /\ locks'[d] = 0
                   /\ \/ locks[d] \notin sessions'
                      \/ reply' = Sent(locks[d], "unlock", d, OkReply)
          /\ \A d \in Datastores :
                (locks[d] # 0 /\ locks[d] \notin sessions') => locks'[d] = 0
          /\ (reply' # reply /\ reply'.rpc = "lock"
              /\ locks[reply'.target] # 0) =>
                /\ DeniedFor(reply'.text, locks[reply'.target])
                /\ locks' = locks
          /\ (reply' # reply /\ reply'.rpc = "unlock"
              /\ locks[reply'.target] = reply'.session) =>
                locks'[reply'.target] = 0]_vars

C21_Witness ==
    /\ reply.rpc = "lock"
    /\ reply.session = 2
    /\ locks[reply.target] = 1
    /\ locks["candidate"] # locks["running"]
    /\ DeniedFor(reply.text, 1)
    /\ sessions = {1, 2}

\* a confirmed commit leaves Pending for INACTIVE in one step only by a
\* confirming commit or by the disconnect of its originating session
LeavesPendingProperly ==
    [][(cc.state \in Pending /\ cc'.state = "INACTIVE") =>
          \/ rb' # NULL /\ rb'[1].cause = "disconnect"
          \/ reply'.rpc = "commit" /\ reply'.text = OkReply]_vars

PhaseOf(calls, phase) == SelectSeq(calls, LAMBDA c : c.phase = phase)

\* C23: when a step of a commit fails, the abort callbacks run for exactly
\* the commit callbacks that returned ok, in the reverse of their order;
\* running is what it was before the commit, candidate is unchanged, the
\* reply is an error carrying the cause; promotion, commit-done and the
\* notification do not run, and nothing runs after the failed step but the
\* aborts and the restore
C23_AbortPath ==
    (lib_fn = "commit" /\ ~lib_out.ok) =>
        LET calls  == lib_out.calls
            oks    == SelectSeq(PhaseOf(calls, "commit"), LAMBDA c : c.ok)
            aborts == PhaseOf(calls, "abort")
            failed == CHOOSE i \in DOMAIN calls : ~calls[i].ok
        IN  /\ Len(aborts) = Len(oks)
            /\ \A i \in DOMAIN aborts :
                  aborts[i].plugin = oks[Len(oks) + 1 - i].plugin
            /\ lib_out.running = lib_in.running
            /\ lib_out.candidate = lib_in.candidate
            /\ \E i \in DOMAIN calls : ~calls[i].ok
            /\ \A i \in DOMAIN calls : ~calls[i].ok => i = failed
            /\ \A i \in DOMAIN calls :
                  i > failed => calls[i].phase \in {"abort", "restore"}
            /\ \A i \in DOMAIN calls :
                  calls[i].phase \notin {"promote", "commit-done", "notify",
                                         "handover"}
            /\ Contains(lib_out.text, <<Open("rpc-error")>>)
            /\ Contains(lib_out.text,
                        <<Open("error-message"), Chr(calls[failed].phase),
                          Chr(calls[failed].plugin), Close("error-message")>>)

C23_Witness ==
    /\ lib_fn = "commit"
    /\ ~lib_out.ok
    /\ lib_in.o = [stage |-> "commit", at |-> 3, done |-> 0]
    /\ lib_in.running = {"a"}
    /\ lib_in.candidate = {"b"}
    /\ PhaseOf(lib_out.calls, "abort") =
          <<Call("abort", "p2", TRUE), Call("abort", "p1", TRUE)>>
    /\ lib_out.running = {"a"}

====
